---- MODULE Spec2Model ----
(***************************************************************************)
(* Model of the archive-movie-browser front end: the TMDB service          *)
(* (services/tmdb.js: cache, request de-duplication, rate limiter,         *)
(* persistence), the MovieCard component and the ArchiveMovieBrowser       *)
(* filter pipeline.                                                        *)
(*                                                                         *)
(* Strings are sequences of one-character strings, so that toLowerCase,    *)
(* trim, includes and the cache key are computed, not assumed.             *)
(* Time is Date.now() in milliseconds.                                     *)
(***************************************************************************)
EXTENDS Integers, Sequences, FiniteSets, TLC

VARIABLES
    now,              \* Date.now()
    enabled,          \* tmdbService.enabled
    tmdbCache,        \* module-level Map: key -> [data, timestamp]
    pendingRequests,  \* module-level Map: key -> request (promise) id
    lastRequestTime,  \* module-level rate-limiter clock
    saveTimeout,      \* module-level debounce timer: 0 (none) or its due time
    localStorage,     \* the item stored under CACHE_STORAGE_KEY
    requests,         \* the _fetchFromTMDB invocations (promises), in creation order
    calls,            \* the searchMovie invocations, in call order
    fetches,          \* the outbound fetch(url) calls, in issue order
    phase,            \* "boot": tmdb.js not yet evaluated; "up": module initialised
    loadedItem        \* the stored item the last loadCacheFromStorage read

\* The browser's timer registry, and the setCache / saveCacheToStorage runs
\* of a session.
VARIABLES
    timers,           \* the due times of the armed setTimeout(saveCacheToStorage) timers
    saveLog           \* the setCache calls and the saves, in order: [op, at]

\* A pure function applied to arguments.
VARIABLES
    fnArgs,           \* the arguments, as a tuple
    fnRet             \* <<>> before the call, <<value>> after it

\* One MovieCard instance, with React's rendering made explicit: the state
\* of the last commit, the state updates queued since, the passive effects
\* the last commit scheduled.
VARIABLES
    card,             \* mounted, the movie prop, and the useState values of the last commit
    queued,           \* state updates enqueued since the last commit: field -> value
    pendingEffects,   \* the effects of the last commit that have not run yet
    lookup,           \* the lookup effect's closure: the call awaited, its cancelled flag
    img,              \* the <img> element: its src and whether its load/error event is due
    imageReports,     \* the arguments of the onImageStatus calls of this card instance
    dataReports,      \* the arguments of the onTmdbData calls of this card instance
    mounts            \* how many card instances have been mounted

\* ArchiveMovieBrowser: the useState values of the last commit, the memoized
\* filteredByRuntime, the archive fetches in flight, and the cards of the grid.
VARIABLES
    movies, loading, inflight, searchQuery, activeSearch, genreFilter,
    minRuntime, contentType, sortBy, page, moviesWithoutImages, tmdbRatings,
    filteredByRuntime,
    cards,            \* identifier -> the state of the card mounted for it
    error,            \* the error state: NullStr or the message of the failure
    retries,          \* the clicks on "Try again" so far
    issued            \* the fetchMovies calls followed one by one, in call order

svcVars == <<now, enabled, tmdbCache, pendingRequests, lastRequestTime,
             saveTimeout, localStorage, requests, calls, fetches>>
bootVars == <<phase, loadedItem>>
cardVars == <<card, queued, pendingEffects, lookup, img, imageReports,
              dataReports, mounts>>
browserVars == <<movies, loading, inflight, searchQuery, activeSearch,
                 genreFilter, minRuntime, contentType, sortBy, page,
                 moviesWithoutImages, tmdbRatings, filteredByRuntime, cards,
                 error, retries, issued>>
uiVars == <<cardVars, browserVars>>
pureVars == <<fnArgs, fnRet>>

----------------------------------------------------------------------------
(* Program constants *)

CACHE_VERSION == 1
CACHE_DURATION == 1000 * 60 * 60 * 24 * 7
MIN_REQUEST_INTERVAL == 100
SAVE_DELAY == 2000

\* A year that is null (archive.js: movie.year ? parseInt(...) : null); every
\* use in tmdb.js tests it for truthiness, so null and 0 behave alike.
NoYear == 0

\* JavaScript null for a lookup result, and for a string-valued field.
NullData == [isNull |-> TRUE]
NullStr == "null"

----------------------------------------------------------------------------
(* Bounds of the model *)

MaxCalls == 2        \* searchMovie invocations per behaviour of Spec
MaxBurst == 3        \* searchMovie invocations per behaviour of SpecBurst
MaxShort == 2        \* short clock steps of SpecBurst
MaxStorageSteps == 2 \* clock steps of SAVE_DELAY / 2 in SpecStorage

\* Date.now() when the module is loaded: an instant more than a TTL after
\* the epoch (TLC's integers are 32 bits wide; the real clock is far later).
StartTime == CACHE_DURATION + 1000

\* The instants the clock visits in Spec: start-up, one rate-limiter
\* interval later, and the two instants around start-up + 7 days.
Instants ==
    {StartTime + d : d \in {0, MIN_REQUEST_INTERVAL,
                            CACHE_DURATION - MIN_REQUEST_INTERVAL, CACHE_DURATION}}

\* The instants of a burst: steps of half a rate-limiter interval.
BurstInstants ==
    {StartTime + (MIN_REQUEST_INTERVAL \div 2) * i : i \in 0..MaxShort}

----------------------------------------------------------------------------
(* String helpers (String.prototype) *)

UpperSeq ==
    <<"A", "B", "C", "D", "E", "F", "G", "H", "I", "J", "K", "L", "M",
      "N", "O", "P", "Q", "R", "S", "T", "U", "V", "W", "X", "Y", "Z">>
LowerSeq ==
    <<"a", "b", "c", "d", "e", "f", "g", "h", "i", "j", "k", "l", "m",
      "n", "o", "p", "q", "r", "s", "t", "u", "v", "w", "x", "y", "z">>
Upper == {UpperSeq[i] : i \in 1..Len(UpperSeq)}
Lower == {LowerSeq[i] : i \in 1..Len(LowerSeq)}

LowerChar(ch) ==
    IF ch \in Upper
    THEN LowerSeq[CHOOSE i \in 1..Len(UpperSeq) : UpperSeq[i] = ch]
    ELSE ch

toLowerCase(s) == [i \in 1..Len(s) |-> LowerChar(s[i])]

IsSpace(ch) == ch = " "

RECURSIVE trimStart(_)
trimStart(s) ==
    IF s # <<>> /\ IsSpace(Head(s)) THEN trimStart(Tail(s)) ELSE s

RECURSIVE trimEnd(_)
trimEnd(s) ==
    IF s # <<>> /\ IsSpace(s[Len(s)]) THEN trimEnd(SubSeq(s, 1, Len(s) - 1)) ELSE s

trim(s) == trimEnd(trimStart(s))

\* haystack.includes(needle)
includes(haystack, needle) ==
    \E i \in 1..(Len(haystack) - Len(needle) + 1) :
        SubSeq(haystack, i, i + Len(needle) - 1) = needle

RECURSIVE DigitsOf(_)
DigitsOf(n) ==
    LET d == <<"0", "1", "2", "3", "4", "5", "6", "7", "8", "9">>[(n % 10) + 1]
    IN IF n < 10 THEN <<d>> ELSE Append(DigitsOf(n \div 10), d)

Unknown == <<"u", "n", "k", "n", "o", "w", "n">>

----------------------------------------------------------------------------
(* TMDBService: cache key, cache read *)

\* Mutant: the title is lower-cased and not trimmed.
getCacheKeyUntrimmed(title, year) ==
    toLowerCase(title) \o <<"-">>
        \o (IF year # NoYear THEN DigitsOf(year) ELSE Unknown)

getCacheKey(title, year) ==
    trim(toLowerCase(title)) \o <<"-">>
        \o (IF year # NoYear THEN DigitsOf(year) ELSE Unknown)

Found(data) == [found |-> TRUE, data |-> data]
NotFound == [found |-> FALSE, data |-> NullData]

\* Mutant: a cached null counts as not cached (a test of cached.data
\* instead of cached).
getFromCacheAtTruthy(cache, t, title, year) ==
    LET key == getCacheKey(title, year)
    IN IF /\ key \in DOMAIN cache
          /\ cache[key].data # NullData
          /\ t - cache[key].timestamp < CACHE_DURATION
       THEN Found(cache[key].data)
       ELSE NotFound

\* Mutant: an entry exactly CACHE_DURATION old is still served.
getFromCacheAtInclusive(cache, t, title, year) ==
    LET key == getCacheKey(title, year)
    IN IF key \in DOMAIN cache /\ t - cache[key].timestamp <= CACHE_DURATION
       THEN Found(cache[key].data)
       ELSE NotFound

getFromCacheAt(cache, t, title, year) ==
    LET key == getCacheKey(title, year)
    IN IF key \in DOMAIN cache /\ t - cache[key].timestamp < CACHE_DURATION
       THEN Found(cache[key].data)
       ELSE NotFound

getFromCache(title, year) == getFromCacheAt(tmdbCache, now, title, year)

----------------------------------------------------------------------------
(* Persistence: loadCacheFromStorage, saveCacheToStorage *)

EmptyMap == [k \in {} |-> 0]

\* The item under CACHE_STORAGE_KEY: absent, not parseable as an envelope,
\* or an envelope {version, timestamp, data}.
NoItem == [kind |-> "none"]
CorruptItem == [kind |-> "corrupt"]

\* Mutant: entries whose data is null are left out of the stored object.
ObjectFromEntriesNoNull(cache) ==
    {<<k, cache[k]>> : k \in {j \in DOMAIN cache : cache[j].data # NullData}}

\* Object.fromEntries(tmdbCache) as JSON.stringify writes it: the set of the
\* object's (key, value) members.
ObjectFromEntries(cache) == {<<k, cache[k]>> : k \in DOMAIN cache}

\* new Map(Object.entries(data)) for a parsed data object.
MapFromEntries(members) ==
    [k \in {p[1] : p \in members} |-> (CHOOSE p \in members : p[1] = k)[2]]

\* The stored JSON text of {version, timestamp, data}, data being the cache.
Envelope(version, cache, t) ==
    [kind |-> "envelope", version |-> version, timestamp |-> t,
     data |-> ObjectFromEntries(cache)]

\* loadCacheFromStorage at time t: the in-memory cache and the stored item
\* after the call. A corrupt item throws inside the try block and leaves
\* both as they were (tmdbCache is the empty Map it was created as).
\* Mutant: the age is tested with <= (an envelope exactly 7 days old is kept).
loadCacheFromStorageInclusive(item, t) ==
    IF item.kind = "envelope"
    THEN IF item.version = CACHE_VERSION /\ t - item.timestamp <= CACHE_DURATION
         THEN [cache |-> MapFromEntries(item.data), item |-> item]
         ELSE [cache |-> EmptyMap, item |-> NoItem]
    ELSE [cache |-> EmptyMap, item |-> item]

loadCacheFromStorage(item, t) ==
    IF item.kind = "envelope"
    THEN IF item.version = CACHE_VERSION /\ t - item.timestamp < CACHE_DURATION
         THEN [cache |-> MapFromEntries(item.data), item |-> item]
         ELSE [cache |-> EmptyMap, item |-> NoItem]
    ELSE [cache |-> EmptyMap, item |-> item]

\* saveCacheToStorage at time t: the envelope is written ("written"), or
\* setItem throws and the item is removed ("removed"), or removeItem throws
\* too and the item stays as it was ("kept").
saveCacheToStorage(cache, t, item, outcome) ==
    CASE outcome = "written" -> Envelope(CACHE_VERSION, cache, t)
      [] outcome = "removed" -> NoItem
      [] OTHER -> item

----------------------------------------------------------------------------
(* TMDBService.cleanTitle: the five replace() calls and the trim *)

Digits == {"0", "1", "2", "3", "4", "5", "6", "7", "8", "9"}
Letters == Lower \cup Upper

IsDigit(ch) == ch \in Digits
\* \w of a JavaScript regular expression: [A-Za-z0-9_]
IsWordChar(ch) == ch \in Letters \cup Digits \cup {"_"}

\* s.replace(/\s*<open>\d{4}<close>\s*$/, '')
StripBracketedYear(s, open, close) ==
    LET t == trimEnd(s)
        n == Len(t)
    IN IF /\ n >= 6
          /\ t[n] = close
          /\ \A i \in (n - 4)..(n - 1) : IsDigit(t[i])
          /\ t[n - 5] = open
       THEN trimEnd(SubSeq(t, 1, n - 6))
       ELSE s

\* s.replace(/\s*-\s*\d{4}\s*$/, '')
StripDashYear(s) ==
    LET t == trimEnd(s)
        n == Len(t)
        u == trimEnd(SubSeq(t, 1, n - 4))
    IN IF /\ n >= 5
          /\ \A i \in (n - 3)..n : IsDigit(t[i])
          /\ u # <<>>
          /\ u[Len(u)] = "-"
       THEN trimEnd(SubSeq(u, 1, Len(u) - 1))
       ELSE s

\* s.replace(/[^\w\s]/g, ' ')
ReplaceSpecial(s) ==
    [i \in 1..Len(s) |-> IF IsWordChar(s[i]) \/ IsSpace(s[i]) THEN s[i] ELSE " "]

\* s.replace(/\s+/g, ' ')
RECURSIVE CollapseSpaces(_)
CollapseSpaces(s) ==
    IF Len(s) < 2 THEN s
    ELSE IF IsSpace(s[1]) /\ IsSpace(s[2]) THEN CollapseSpaces(Tail(s))
    ELSE <<s[1]>> \o CollapseSpaces(Tail(s))

cleanTitle(title) ==
    trim(CollapseSpaces(ReplaceSpecial(StripDashYear(
        StripBracketedYear(StripBracketedYear(title, "(", ")"), "[", "]")))))

----------------------------------------------------------------------------
(* TMDBService._fetchFromTMDB: the best match among the ranked results *)

\* The predicate of data.results.find(...)
TitleMatches(movie, cleanedTitle) ==
    LET movieTitle == toLowerCase(movie.title)
        searchTitle == toLowerCase(cleanedTitle)
    IN \/ movieTitle = searchTitle
       \/ includes(movieTitle, searchTitle)
       \/ includes(searchTitle, movieTitle)

\* Array.prototype.find: the first element satisfying the predicate, as a
\* sequence of length 0 or 1.
RECURSIVE FindMatch(_, _)
FindMatch(results, cleanedTitle) ==
    IF results = <<>> THEN <<>>
    ELSE IF TitleMatches(Head(results), cleanedTitle) THEN <<Head(results)>>
    ELSE FindMatch(Tail(results), cleanedTitle)

\* Mutant: the fallback takes the first result without looking at its poster.
BestMatchAnyTop(results, cleanedTitle) ==
    IF results = <<>> THEN <<>>
    ELSE LET found == FindMatch(results, cleanedTitle)
         IN IF found # <<>> THEN found ELSE <<results[1]>>

\* bestMatch: <<>> stands for null.
BestMatch(results, cleanedTitle) ==
    IF results = <<>> THEN <<>>
    ELSE LET found == FindMatch(results, cleanedTitle)
         IN IF found # <<>> THEN found
            ELSE IF results[1].poster_path # NullStr THEN <<results[1]>>
            ELSE <<>>

\* The record the lookup stores and returns (backdropPath, releaseDate,
\* overview and genreIds are copied the same way and are left out).
ResultOf(results, title) ==
    LET best == BestMatch(results, cleanTitle(title))
    IN IF best = <<>> THEN NullData
       ELSE [isNull |-> FALSE,
             id |-> best[1].id,
             title |-> best[1].title,
             posterPath |-> best[1].poster_path,
             voteAverage |-> best[1].vote_average]

\* What _fetchFromTMDB returns for a network outcome: a rejected fetch or
\* json() ("throw"), a response that is not ok ("notok"), or a body ("ok").
LookupResult(response, title) ==
    IF response.kind = "ok" THEN ResultOf(response.results, title) ELSE NullData

\* Whether _fetchFromTMDB calls setCache for this outcome: it does on all
\* three paths (the !response.ok branch, the normal path, the catch branch).
LookupIsCached(response) == response.kind \in {"ok", "notok", "throw"}

----------------------------------------------------------------------------
(* Inputs of the service model *)

T_Al == <<"A", "l">>
T_al_ == <<"a", "l", " ">>
T_B == <<"B">>
T_c == <<"c">>

\* The (title, year) pairs searchMovie is called with. The first two differ
\* as strings and share a cache key.
Movies == {<<T_Al, NoYear>>, <<T_al_, NoYear>>, <<T_B, 1963>>}

\* Three pairs with three different cache keys.
BurstMovies == {<<T_Al, NoYear>>, <<T_B, 1963>>, <<T_c, NoYear>>}

\* Candidates of the search endpoint.
CandAl == [id |-> 1, title |-> T_Al, poster_path |-> "/al.jpg", vote_average |-> 7]
CandZ == [id |-> 2, title |-> <<"Z">>, poster_path |-> NullStr, vote_average |-> 0]

\* What the network can answer: the fetch (or json()) rejects, the response
\* is not ok, or it is ok with a ranked result list.
Responses ==
    {[kind |-> "throw", results |-> <<>>], [kind |-> "notok", results |-> <<>>]}
    \cup {[kind |-> "ok", results |-> rs] : rs \in {<<>>, <<CandAl>>}}

----------------------------------------------------------------------------
(* TMDBService: setCache, the rate limiter, the pending-request map *)

\* Mutant: the cache keeps the latest entry only.
CachePutEvicting(cache, key, data, t) ==
    [k \in {key} |-> [data |-> data, timestamp |-> t]]

\* tmdbCache.set(key, {data, timestamp: Date.now()})
CachePut(cache, key, data, t) ==
    [k \in DOMAIN cache \cup {key} |->
        IF k = key THEN [data |-> data, timestamp |-> t] ELSE cache[k]]

\* Mutant: the entry is stored under a key that is not lower-cased.
setCacheRawKey(cache, title, year, data, t) ==
    CachePut(cache, trim(title) \o <<"-">>
                 \o (IF year # NoYear THEN DigitsOf(year) ELSE Unknown), data, t)

\* setCache(title, year, data): the cache after the call.
setCache(cache, title, year, data, t) ==
    CachePut(cache, getCacheKey(title, year), data, t)

\* debouncedSave(): clears the pending timer and arms a new one.
debouncedSave(t) == t + SAVE_DELAY

\* Mutant: the pending timer is not cleared.
clearTimeoutForgotten(armed, handle) == armed

\* clearTimeout(saveTimeout): the armed timers after the call.
clearTimeout(armed, handle) == armed \ {handle}

\* debouncedSave() on the timer registry: the pending timer is cleared and
\* one due at `due` is armed.
rearm(armed, handle, due) == clearTimeout(armed, handle) \cup {due}

\* throttledFetch: how long the caller sleeps before it issues the fetch
\* (0: it issues the fetch at once).
ThrottleDelay(t, last) ==
    IF t - last < MIN_REQUEST_INTERVAL THEN MIN_REQUEST_INTERVAL - (t - last) ELSE 0

\* Mutant: the promise is never registered.
PendingSetForgotten(pending, key, rid) == pending

\* pendingRequests.set(cacheKey, requestPromise)
PendingSet(pending, key, rid) ==
    [k \in DOMAIN pending \cup {key} |-> IF k = key THEN rid ELSE pending[k]]

\* Mutant: the pending entry is never removed.
PendingDeleteForgotten(pending, key) == pending

\* pendingRequests.delete(cacheKey), in searchMovie's finally block
PendingDelete(pending, key) ==
    [k \in DOMAIN pending \ {key} |-> pending[k]]

----------------------------------------------------------------------------
(* Bookkeeping over the histories (requests, calls, fetches) *)

RequestIds == 1..Len(requests)
CallIds == 1..Len(calls)

\* The request for `key` whose lookup has not settled, 0 if none.
InFlightFor(key) ==
    LET open == {r \in RequestIds : requests[r].key = key /\ requests[r].pc # "done"}
    IN IF open = {} THEN 0 ELSE CHOOSE r \in open : \A q \in open : q <= r

\* The outcome of the last settled request for `key`, "none" if there is none.
LastOutcomeFor(key) ==
    LET done == {r \in RequestIds : requests[r].key = key /\ requests[r].pc = "done"}
    IN IF done = {} THEN "none"
       ELSE requests[CHOOSE r \in done : \A q \in done : q <= r].outcome

NewCall(title, year) ==
    [title |-> title, year |-> year, key |-> getCacheKey(title, year),
     at |-> now,
     enabledAtCall |-> enabled,
     foundAtCall |-> getFromCache(title, year).found,
     inFlightAtCall |-> InFlightFor(getCacheKey(title, year)),
     prevOutcome |-> LastOutcomeFor(getCacheKey(title, year)),
     returnedBefore |-> {c \in CallIds : calls[c].returned},
     req |-> 0, owner |-> FALSE, returned |-> FALSE,
     result |-> NullData, stamp |-> 0]

----------------------------------------------------------------------------
(* TMDBService.searchMovie: the synchronous part of a call *)

\* if (!this.enabled) return null
SearchDisabled(title, year) ==
    /\ ~enabled
    /\ calls' = Append(calls, [NewCall(title, year) EXCEPT !.returned = TRUE])
    /\ UNCHANGED <<now, enabled, tmdbCache, pendingRequests, lastRequestTime,
                   saveTimeout, localStorage, requests, fetches>>

\* if (cached.found) return cached.data
SearchCached(title, year) ==
    /\ enabled
    /\ getFromCache(title, year).found
    /\ calls' = Append(calls,
            [NewCall(title, year) EXCEPT
                !.returned = TRUE,
                !.result = getFromCache(title, year).data,
                !.stamp = tmdbCache[getCacheKey(title, year)].timestamp])
    /\ UNCHANGED <<now, enabled, tmdbCache, pendingRequests, lastRequestTime,
                   saveTimeout, localStorage, requests, fetches>>

\* if (pendingRequests.has(cacheKey)) return pendingRequests.get(cacheKey)
SearchJoin(title, year) ==
    LET key == getCacheKey(title, year)
    IN /\ enabled
       /\ ~getFromCache(title, year).found
       /\ key \in DOMAIN pendingRequests
       /\ calls' = Append(calls,
               [NewCall(title, year) EXCEPT !.req = pendingRequests[key]])
       /\ UNCHANGED <<now, enabled, tmdbCache, pendingRequests, lastRequestTime,
                      saveTimeout, localStorage, requests, fetches>>

\* _fetchFromTMDB runs up to its first await inside throttledFetch: either
\* the fetch is issued at once, or a timer is armed; then the promise is
\* registered in pendingRequests.
SearchStart(title, year) ==
    LET key == getCacheKey(title, year)
        rid == Len(requests) + 1
        delay == ThrottleDelay(now, lastRequestTime)
    IN /\ enabled
       /\ ~getFromCache(title, year).found
       /\ key \notin DOMAIN pendingRequests
       /\ requests' = Append(requests,
               [title |-> title, year |-> year, key |-> key,
                pc |-> IF delay > 0 THEN "timer" ELSE "fetch",
                createdAt |-> now, due |-> now + delay,
                outcome |-> "none", result |-> NullData, settledAt |-> 0])
       /\ IF delay > 0
          THEN UNCHANGED <<lastRequestTime, fetches>>
          ELSE /\ lastRequestTime' = now
               /\ fetches' = Append(fetches,
                       [rid |-> rid, at |-> now, query |-> cleanTitle(title), year |-> year])
       /\ pendingRequests' = PendingSet(pendingRequests, key, rid)
       /\ calls' = Append(calls,
               [NewCall(title, year) EXCEPT !.req = rid, !.owner = TRUE])
       /\ UNCHANGED <<now, enabled, tmdbCache, saveTimeout, localStorage>>

SearchMovie(inputs, maxCalls) ==
    /\ Len(calls) < maxCalls
    /\ \E m \in inputs :
         \/ SearchDisabled(m[1], m[2])
         \/ SearchCached(m[1], m[2])
         \/ SearchJoin(m[1], m[2])
         \/ SearchStart(m[1], m[2])

\* throttledFetch after its sleep: lastRequestTime = Date.now(); fetch(url)
ThrottleWake ==
    \E rid \in RequestIds :
       /\ requests[rid].pc = "timer"
       /\ now >= requests[rid].due
       /\ requests' = [requests EXCEPT ![rid].pc = "fetch"]
       /\ lastRequestTime' = now
       /\ fetches' = Append(fetches,
               [rid |-> rid, at |-> now,
                query |-> cleanTitle(requests[rid].title), year |-> requests[rid].year])
       /\ UNCHANGED <<now, enabled, tmdbCache, pendingRequests, saveTimeout,
                      localStorage, calls>>

\* Mutant: only the call that started the request gets the promise's value.
LookupSettlesOwnerOnly(responses) ==
    \E rid \in RequestIds, response \in responses :
       LET r == requests[rid]
           result == LookupResult(response, r.title)
       IN /\ r.pc = "fetch"
          /\ requests' = [requests EXCEPT
                 ![rid].pc = "done", ![rid].outcome = response.kind,
                 ![rid].result = result, ![rid].settledAt = now]
          /\ IF LookupIsCached(response)
             THEN /\ tmdbCache' = setCache(tmdbCache, r.title, r.year, result, now)
                  /\ saveTimeout' = debouncedSave(now)
                  /\ timers' = rearm(timers, saveTimeout, debouncedSave(now))
             ELSE UNCHANGED <<tmdbCache, saveTimeout, timers>>
          /\ pendingRequests' = PendingDelete(pendingRequests, r.key)
          /\ calls' = [c \in CallIds |->
                 IF calls[c].req = rid /\ calls[c].owner /\ ~calls[c].returned
                 THEN [calls[c] EXCEPT !.returned = TRUE, !.result = result,
                                       !.stamp = now]
                 ELSE calls[c]]
          /\ UNCHANGED <<now, enabled, lastRequestTime, localStorage, fetches>>

\* The network answers: the rest of _fetchFromTMDB (result, setCache,
\* debouncedSave), then the continuations of the promise in the same
\* microtask checkpoint: the owner's finally block deletes the pending
\* entry and every call awaiting the promise gets its value.
LookupSettles(responses) ==
    \E rid \in RequestIds, response \in responses :
       LET r == requests[rid]
           result == LookupResult(response, r.title)
       IN /\ r.pc = "fetch"
          /\ requests' = [requests EXCEPT
                 ![rid].pc = "done", ![rid].outcome = response.kind,
                 ![rid].result = result, ![rid].settledAt = now]
          /\ IF LookupIsCached(response)
             THEN /\ tmdbCache' = setCache(tmdbCache, r.title, r.year, result, now)
                  /\ saveTimeout' = debouncedSave(now)
                  /\ timers' = rearm(timers, saveTimeout, debouncedSave(now))
             ELSE UNCHANGED <<tmdbCache, saveTimeout, timers>>
          /\ pendingRequests' = PendingDelete(pendingRequests, r.key)
          /\ calls' = [c \in CallIds |->
                 IF calls[c].req = rid /\ ~calls[c].returned
                 THEN [calls[c] EXCEPT !.returned = TRUE, !.result = result,
                                       !.stamp = now]
                 ELSE calls[c]]
          /\ UNCHANGED <<now, enabled, lastRequestTime, localStorage, fetches>>

\* Mutant: a save that fails empties the in-memory cache.
SaveFiresClearing ==
    /\ \E due \in timers :
          /\ now >= due
          /\ timers' = timers \ {due}
          /\ saveTimeout' = IF due = saveTimeout THEN 0 ELSE saveTimeout
    /\ \E outcome \in {"written", "removed", "kept"} :
         /\ localStorage' = saveCacheToStorage(tmdbCache, now, localStorage, outcome)
         /\ tmdbCache' = IF outcome = "written" THEN tmdbCache ELSE EmptyMap
    /\ UNCHANGED <<now, enabled, pendingRequests, lastRequestTime,
                   requests, calls, fetches>>

\* An armed timer fires: saveCacheToStorage. (saveTimeout = 0 stands for a
\* handle whose timer has fired; clearing such a handle does nothing.)
SaveFires ==
    /\ \E due \in timers :
          /\ now >= due
          /\ timers' = timers \ {due}
          /\ saveTimeout' = IF due = saveTimeout THEN 0 ELSE saveTimeout
    /\ \E outcome \in {"written", "removed", "kept"} :
         localStorage' = saveCacheToStorage(tmdbCache, now, localStorage, outcome)
    /\ UNCHANGED <<now, enabled, tmdbCache, pendingRequests, lastRequestTime,
                   requests, calls, fetches>>

\* Time passes.
Tick(instants) ==
    /\ \E t \in instants : t > now /\ now' = t
    /\ UNCHANGED <<enabled, tmdbCache, pendingRequests, lastRequestTime,
                   saveTimeout, localStorage, requests, calls, fetches>>

----------------------------------------------------------------------------
(* The catalog items, and the user interface before it is mounted *)

\* Items as archiveService.fetchMovies maps them (the fields the browser and
\* the card read; thumbnailUrl is always a non-empty string).
ItemAl ==
    [identifier |-> "al", title |-> T_Al, year |-> NoYear,
     runtimeMinutes |-> 95, genres |-> <<"Horror">>]
ItemB ==
    [identifier |-> "b", title |-> T_B, year |-> 1963,
     runtimeMinutes |-> 20, genres |-> <<"Comedy">>]

\* The useState initial values of MovieCard (isHovered only drives a CSS
\* class and is left out).
InitialCard(movie) ==
    [mounted |-> TRUE, movie |-> movie, tmdbData |-> NullData,
     tmdbChecked |-> FALSE, posterLoaded |-> FALSE, posterError |-> FALSE,
     statusReported |-> FALSE]

\* No lookup awaited.
NoClosure == [call |-> 0, cancelled |-> TRUE]
\* No <img> element rendered.
NoImg == [src |-> "none", state |-> "none"]

NoCardMounted ==
    /\ card = [InitialCard(ItemAl) EXCEPT !.mounted = FALSE]
    /\ queued = EmptyMap
    /\ pendingEffects = {}
    /\ lookup = NoClosure
    /\ img = NoImg
    /\ imageReports = <<>>
    /\ dataReports = <<>>
    /\ mounts = 0

\* The useState initial values of ArchiveMovieBrowser.
DEFAULT_MIN_RUNTIME == 40
FIRST_PAGE == 1

InitialBrowser ==
    /\ movies = <<>>
    /\ searchQuery = <<>>
    /\ activeSearch = <<>>
    /\ genreFilter = "all"
    /\ minRuntime = DEFAULT_MIN_RUNTIME
    /\ contentType = "features"
    /\ sortBy = "downloads"
    /\ page = FIRST_PAGE
    /\ moviesWithoutImages = {}
    /\ tmdbRatings = EmptyMap
    /\ filteredByRuntime = <<>>
    /\ cards = EmptyMap
    /\ error = NullStr
    /\ retries = 0
    /\ issued = <<>>

BrowserNotMounted ==
    /\ InitialBrowser
    /\ loading = FALSE
    /\ inflight = 0

----------------------------------------------------------------------------
(* The service on its own, in one session *)

\* What the session finds stored: nothing, or an envelope saved by an
\* earlier session whose one entry is MIN_REQUEST_INTERVAL short of 7 days
\* old at start-up.
OldStamp == StartTime - CACHE_DURATION + MIN_REQUEST_INTERVAL
OldEntryCache ==
    CachePut(EmptyMap, getCacheKey(T_Al, NoYear), ResultOf(<<CandAl>>, T_Al), OldStamp)
StoredAtStart == {NoItem, Envelope(CACHE_VERSION, OldEntryCache, OldStamp + SAVE_DELAY)}

\* The state once the module is initialised (loadCacheFromStorage has run)
\* and the service is constructed, with or without an API key.
\* No timer armed, nothing logged, no function applied.
NothingElse ==
    /\ timers = {}
    /\ saveLog = <<>>
    /\ fnArgs = <<>>
    /\ fnRet = <<>>

ServiceStarted ==
    /\ now = StartTime
    /\ enabled \in BOOLEAN
    /\ \E item \in StoredAtStart :
          /\ tmdbCache = loadCacheFromStorage(item, StartTime).cache
          /\ localStorage = loadCacheFromStorage(item, StartTime).item
          /\ loadedItem = item
    /\ phase = "up"
    /\ pendingRequests = EmptyMap
    /\ lastRequestTime = 0
    /\ saveTimeout = 0
    /\ requests = <<>>
    /\ calls = <<>>
    /\ fetches = <<>>

Init ==
    /\ ServiceStarted
    /\ NothingElse
    /\ NoCardMounted
    /\ BrowserNotMounted

Next ==
    \/ SearchMovie(Movies, MaxCalls) /\ UNCHANGED <<timers, saveLog, pureVars, bootVars, uiVars>>
    \/ ThrottleWake /\ UNCHANGED <<timers, saveLog, pureVars, bootVars, uiVars>>
    \/ LookupSettles(Responses) /\ UNCHANGED <<saveLog, pureVars, bootVars, uiVars>>
    \/ Tick(Instants) /\ UNCHANGED <<timers, saveLog, pureVars, bootVars, uiVars>>

vars == <<svcVars, bootVars, uiVars, timers, saveLog, pureVars>>

Spec == Init /\ [][Next]_vars

\* A burst of lookups on distinct keys.
NextBurst ==
    \/ SearchMovie(BurstMovies, MaxBurst) /\ UNCHANGED <<timers, saveLog, pureVars, bootVars, uiVars>>
    \/ ThrottleWake /\ UNCHANGED <<timers, saveLog, pureVars, bootVars, uiVars>>
    \/ LookupSettles(Responses) /\ UNCHANGED <<saveLog, pureVars, bootVars, uiVars>>
    \/ Tick(BurstInstants) /\ UNCHANGED <<timers, saveLog, pureVars, bootVars, uiVars>>

SpecBurst == Init /\ [][NextBurst]_vars

----------------------------------------------------------------------------
(* Persistence across sessions: module initialisation, setCache, the       *)
(* debounced save, page reloads                                            *)

\* A stored cache with a match and an explicit no-match.
TwoEntryCache(t) ==
    CachePut(CachePut(EmptyMap, getCacheKey(T_Al, NoYear), ResultOf(<<CandAl>>, T_Al), t),
             getCacheKey(T_B, 1963), NullData, t)

\* What a session can find stored when tmdb.js is first evaluated: nothing,
\* something unparseable, or an envelope written by this build or by a build
\* with another CACHE_VERSION, saved SAVE_DELAY ago, or exactly 7 days ago.
StoredAtBoot ==
    {NoItem, CorruptItem}
    \cup {Envelope(v, TwoEntryCache(t - SAVE_DELAY), t) :
            v \in {CACHE_VERSION, CACHE_VERSION + 1},
            t \in {StartTime - SAVE_DELAY, StartTime - CACHE_DURATION}}

\* The instants the clock visits in SpecStorage.
StorageInstants ==
    {StartTime + (SAVE_DELAY \div 2) * i : i \in 0..MaxStorageSteps}
    \cup {StartTime + CACHE_DURATION + (SAVE_DELAY \div 2) * i : i \in 0..1}

\* The arguments of setCache in SpecStorage.
StorageMovies == {<<T_Al, NoYear>>, <<T_B, 1963>>}
StorageData == {NullData, ResultOf(<<CandAl>>, T_Al)}

\* tmdb.js is evaluated: tmdbCache = new Map(), then loadCacheFromStorage().
ModuleInit ==
    /\ phase = "boot"
    /\ phase' = "up"
    /\ loadedItem' = localStorage
    /\ tmdbCache' = loadCacheFromStorage(localStorage, now).cache
    /\ localStorage' = loadCacheFromStorage(localStorage, now).item
    /\ UNCHANGED <<now, enabled, pendingRequests, lastRequestTime, saveTimeout,
                   requests, calls, fetches>>

\* TMDBService.setCache(title, year, data)
SetCacheCall ==
    /\ phase = "up"
    /\ \E m \in StorageMovies, data \in StorageData :
          tmdbCache' = setCache(tmdbCache, m[1], m[2], data, now)
    /\ saveTimeout' = debouncedSave(now)
    /\ timers' = rearm(timers, saveTimeout, debouncedSave(now))
    /\ UNCHANGED <<now, enabled, pendingRequests, lastRequestTime, localStorage,
                   requests, calls, fetches, phase, loadedItem>>

\* The page is reloaded: the module state is gone (timers included), the
\* stored item stays.
Reload ==
    /\ phase = "up"
    /\ phase' = "boot"
    /\ tmdbCache' = EmptyMap
    /\ saveTimeout' = 0
    /\ timers' = {}
    /\ UNCHANGED <<now, enabled, pendingRequests, lastRequestTime, localStorage,
                   requests, calls, fetches, loadedItem>>

InitStorage ==
    /\ NothingElse
    /\ NoCardMounted
    /\ BrowserNotMounted
    /\ now = StartTime
    /\ enabled \in BOOLEAN
    /\ localStorage \in StoredAtBoot
    /\ loadedItem = NoItem
    /\ phase = "boot"
    /\ tmdbCache = EmptyMap
    /\ pendingRequests = EmptyMap
    /\ lastRequestTime = 0
    /\ saveTimeout = 0
    /\ requests = <<>>
    /\ calls = <<>>
    /\ fetches = <<>>

NextStorage ==
    \/ ModuleInit /\ UNCHANGED <<timers, saveLog, pureVars, uiVars>>
    \/ SetCacheCall /\ UNCHANGED <<saveLog, pureVars, uiVars>>
    \/ SaveFires /\ phase = "up" /\ UNCHANGED <<saveLog, pureVars, bootVars, uiVars>>
    \/ Reload /\ UNCHANGED <<saveLog, pureVars, uiVars>>
    \/ Tick(StorageInstants) /\ UNCHANGED <<timers, saveLog, pureVars, bootVars, uiVars>>

SpecStorage == InitStorage /\ [][NextStorage]_vars

----------------------------------------------------------------------------
(* Claims about the service *)

FetchesOf(rid) == {f \in 1..Len(fetches) : fetches[f].rid = rid}

Failed(outcome) == outcome \in {"throw", "notok"}

\* C1: every searchMovie call made while the service is enabled and the key
\* is not cached is attached to a lookup; if a lookup for its key was in
\* flight when it was made, it is attached to that lookup and no new one is
\* started; a lookup issues at most one fetch, exactly one by the time it has
\* settled; and every call attached to it resolves to the lookup's value.
C1_SingleFlight ==
    \A c \in CallIds :
        (calls[c].enabledAtCall /\ ~calls[c].foundAtCall) =>
            /\ calls[c].req \in RequestIds
            /\ calls[c].inFlightAtCall # 0 => calls[c].req = calls[c].inFlightAtCall
            /\ Cardinality(FetchesOf(calls[c].req)) <= 1
            /\ calls[c].returned =>
                  /\ requests[calls[c].req].pc = "done"
                  /\ Cardinality(FetchesOf(calls[c].req)) = 1
                  /\ calls[c].result = requests[calls[c].req].result
            /\ \A d \in CallIds :
                  (calls[d].req = calls[c].req /\ calls[d].returned /\ calls[c].returned)
                      => calls[d].result = calls[c].result

\* Two calls with different titles and the same key shared one lookup, which
\* found a match, and both have returned it.
C1_Witness ==
    \E c, d \in CallIds :
        /\ c # d
        /\ calls[c].title # calls[d].title
        /\ calls[c].req # 0 /\ calls[c].req = calls[d].req
        /\ calls[c].returned /\ calls[d].returned
        /\ calls[c].result # NullData
        /\ Cardinality(FetchesOf(calls[c].req)) = 1

\* The requests owned by the calls c and d.
OwnedBy(c, d) == {calls[x].req : x \in {y \in {c, d} : calls[y].owner}}

Sequential(c, d) ==
    /\ c \in calls[d].returnedBefore
    /\ calls[c].title = calls[d].title
    /\ calls[c].year = calls[d].year

AtMostOneRequestSameResult(c, d) ==
    /\ Cardinality(UNION {FetchesOf(r) : r \in OwnedBy(c, d)}) <= 1
    /\ Cardinality(OwnedBy(c, d)) <= 1
    /\ calls[d].returned => calls[d].result = calls[c].result

\* C2 as stated: two calls for the same (title, year), the second made after
\* the first returned and less than 7 days after the first was made, issue
\* at most one network request and return the same result.
C2_Original ==
    \A c, d \in CallIds :
        (Sequential(c, d) /\ calls[d].at - calls[c].at < CACHE_DURATION)
            => AtMostOneRequestSameResult(c, d)

\* C2 amended: two calls for the same (title, year), the second made after
\* the first returned and less than 7 days after the timestamp of the cache
\* entry that answered the first (or with the service disabled), issue at
\* most one network request and return the same result.
C2_WithinEntryTTL ==
    \A c, d \in CallIds :
        (/\ Sequential(c, d)
         /\ calls[c].enabledAtCall => calls[d].at - calls[c].stamp < CACHE_DURATION)
            => AtMostOneRequestSameResult(c, d)

\* The first call performed the lookup, the clock moved on, and the second
\* call was answered with the same match.
C2_Witness ==
    \E c, d \in CallIds :
        /\ Sequential(c, d)
        /\ calls[c].owner
        /\ calls[d].at > calls[c].stamp
        /\ calls[d].returned
        /\ calls[d].result # NullData

\* C3: a lookup that failed (rejected fetch, or a response that is not ok)
\* leaves no cache entry written by it, and the next call for its key made
\* after it settled starts a fresh lookup.
C3_FailuresNotCached ==
    /\ \A r \in RequestIds :
          (requests[r].pc = "done" /\ Failed(requests[r].outcome)) =>
              ~(/\ requests[r].key \in DOMAIN tmdbCache
                /\ tmdbCache[requests[r].key].timestamp = requests[r].settledAt)
    /\ \A c \in CallIds :
          (calls[c].enabledAtCall /\ Failed(calls[c].prevOutcome)) => calls[c].owner

\* C4: for 7 days after a lookup settled with a successful response and no
\* acceptable match, getFromCache reports found=true with data null for its
\* key and no further lookup for the key is started; for a key with no cache
\* entry getFromCache reports found=false, which is a different value.
C4_NoMatchIsCached ==
    /\ \A r \in RequestIds :
          (/\ requests[r].pc = "done"
           /\ requests[r].outcome = "ok"
           /\ requests[r].result = NullData) =>
              /\ now - requests[r].settledAt < CACHE_DURATION =>
                    getFromCache(requests[r].title, requests[r].year) = Found(NullData)
              /\ \A q \in RequestIds :
                    (q > r /\ requests[q].key = requests[r].key) =>
                        requests[q].createdAt - requests[r].settledAt >= CACHE_DURATION
    /\ \A m \in Movies :
          getCacheKey(m[1], m[2]) \notin DOMAIN tmdbCache =>
              /\ getFromCache(m[1], m[2]) = NotFound
              /\ getFromCache(m[1], m[2]) # Found(NullData)

\* A lookup got a successful response without a match; later a call for the
\* key was answered null from the cache without a lookup, while another key
\* has never been looked up.
C4_Witness ==
    \E r \in RequestIds, c \in CallIds :
        /\ requests[r].pc = "done"
        /\ requests[r].outcome = "ok"
        /\ requests[r].result = NullData
        /\ calls[c].key = requests[r].key
        /\ calls[c].at > requests[r].settledAt
        /\ calls[c].foundAtCall /\ calls[c].req = 0 /\ calls[c].result = NullData
        /\ \E m \in Movies : getCacheKey(m[1], m[2]) \notin DOMAIN tmdbCache

\* C5: any two consecutive outbound fetches are issued at least
\* MIN_REQUEST_INTERVAL apart.
C5_MinSpacing ==
    \A f \in 1..(Len(fetches) - 1) :
        fetches[f + 1].at - fetches[f].at >= MIN_REQUEST_INTERVAL

AllKeys == {getCacheKey(m[1], m[2]) : m \in Movies \cup BurstMovies}

\* C7: a key is in pendingRequests exactly while a lookup for it has not
\* settled, the map then names that lookup, and no key has two unsettled
\* lookups.
C7_PendingIffInFlight ==
    /\ DOMAIN pendingRequests \subseteq AllKeys
    /\ \A k \in AllKeys :
          /\ k \in DOMAIN pendingRequests <=> InFlightFor(k) # 0
          /\ k \in DOMAIN pendingRequests => pendingRequests[k] = InFlightFor(k)
    /\ \A r, q \in RequestIds :
          (/\ requests[r].key = requests[q].key
           /\ requests[r].pc # "done" /\ requests[q].pc # "done") => r = q

\* A lookup awaited by two calls failed and has settled; its key is no
\* longer pending.
C7_Witness ==
    \E r \in RequestIds :
        /\ requests[r].pc = "done"
        /\ Failed(requests[r].outcome)
        /\ Cardinality({c \in CallIds : calls[c].req = r}) >= 2
        /\ requests[r].key \notin DOMAIN pendingRequests

----------------------------------------------------------------------------
(* Claims about persistence *)

\* The envelope is one loadCacheFromStorage must discard at time t.
Stale(item, t) ==
    /\ item.kind = "envelope"
    /\ \/ item.version # CACHE_VERSION
       \/ t - item.timestamp >= CACHE_DURATION

\* C6: when tmdb.js is initialised and the stored envelope has another
\* version than CACHE_VERSION or a timestamp 7 days old or older, the
\* in-memory cache is empty after loading: no entry of the envelope is kept.
C6_StaleEnvelopeDiscarded ==
    [][(phase = "boot" /\ phase' = "up" /\ Stale(localStorage, now))
          => tmdbCache' = EmptyMap]_vars

\* The module has just loaded from an envelope of this build's version that
\* held two entries and was exactly 7 days old, and the cache is empty.
C6_Witness ==
    /\ phase = "up"
    /\ loadedItem.kind = "envelope"
    /\ loadedItem.version = CACHE_VERSION
    /\ Cardinality(loadedItem.data) = 2
    /\ now - loadedItem.timestamp = CACHE_DURATION
    /\ tmdbCache = EmptyMap
    /\ saveTimeout = 0

----------------------------------------------------------------------------
(* MovieCard. React keeps the useState values of the last commit; a        *)
(* handler, an effect or a promise callback reads those values from the    *)
(* closure of that commit and enqueues its updates, which the next render  *)
(* commits. Passive effects of a commit run before the next render.        *)

MaxMounts == 2   \* card instances mounted per behaviour of SpecCard

\* The movie prop of the card in SpecCard.
CardItems == {ItemAl}

\* A match whose poster_path is null.
CandAlNoPoster ==
    [id |-> 3, title |-> T_Al, poster_path |-> NullStr, vote_average |-> 6]

\* What the network answers to the lookups of the cards: no result, a match
\* with a poster, a match without one.
UIResponses ==
    {[kind |-> "ok", results |-> rs] : rs \in {<<>>, <<CandAl>>, <<CandAlNoPoster>>}}

\* tmdbEnabled={!!tmdbApiKey}; the browser's mount effect has passed the same
\* key to tmdbService.setApiKey.
tmdbEnabled == enabled

\* tmdbData?.posterPath is truthy (tmdbPosterUrl is not null)
HasPoster(data) == data # NullData /\ data.posterPath # NullStr

\* The state after committing the queued updates.
Apply(state, updates) ==
    [f \in DOMAIN state |-> IF f \in DOMAIN updates THEN updates[f] ELSE state[f]]

\* .then(data => { if (cancelled) return; setTmdbData(data); setTmdbChecked(true) })
LookupResolved(data) == ("tmdbData" :> data) @@ ("tmdbChecked" :> TRUE)

\* What the render of state c puts in the poster slot: the TMDB poster, else
\* the archive thumbnail; no <img> once posterError is set.
ImgSrc(c) ==
    IF c.posterError THEN "none"
    ELSE IF HasPoster(c.tmdbData) THEN "poster" ELSE "thumbnail"

\* The <img> element after a commit: unchanged while its src is, loading
\* again when the src changes.
ImgAfterRender(element, c) ==
    IF ImgSrc(c) = "none" THEN NoImg
    ELSE IF ImgSrc(c) = element.src THEN element
    ELSE [src |-> ImgSrc(c), state |-> "loading"]

\* The grid mounts a card: first render and commit; both effects are due.
CardMount(movie) ==
    /\ ~card.mounted
    /\ mounts < MaxMounts
    /\ mounts' = mounts + 1
    /\ card' = InitialCard(movie)
    /\ queued' = EmptyMap
    /\ pendingEffects' = {"lookup", "report"}
    /\ lookup' = NoClosure
    /\ img' = ImgAfterRender(NoImg, InitialCard(movie))
    /\ imageReports' = <<>>
    /\ dataReports' = <<>>

\* The passive effects of the last commit run, in declaration order, with
\* the state of that commit: the lookup effect (after the cleanup of its
\* previous run), then the report effect. A lookup answered from the cache
\* resolves in the microtask that follows.
CardEffects ==
    LET doLookup == "lookup" \in pendingEffects
        doCall == doLookup /\ tmdbEnabled /\ card.movie.title # <<>> /\ ~card.tmdbChecked
        noKey == doLookup /\ ~tmdbEnabled /\ ~card.tmdbChecked
        doReport == "report" \in pendingEffects /\ card.tmdbChecked /\ ~card.statusReported
    IN /\ card.mounted
       /\ pendingEffects # {}
       /\ pendingEffects' = {}
       /\ IF doCall
          THEN SearchMovie({<<card.movie.title, card.movie.year>>}, MaxMounts)
          ELSE UNCHANGED svcVars
       /\ LET c == Len(calls')
              resolved == doCall /\ calls'[c].returned
              q1 == IF resolved THEN LookupResolved(calls'[c].result) @@ queued
                    ELSE IF noKey THEN ("tmdbChecked" :> TRUE) @@ queued
                    ELSE queued
          IN /\ lookup' = IF ~doLookup THEN lookup
                          ELSE IF doCall /\ ~resolved THEN [call |-> c, cancelled |-> FALSE]
                          ELSE NoClosure
             /\ queued' = IF doReport THEN ("statusReported" :> TRUE) @@ q1 ELSE q1
       /\ dataReports' = IF doReport /\ card.tmdbData # NullData
                         THEN Append(dataReports, card.tmdbData) ELSE dataReports
       /\ imageReports' = IF doReport
                          THEN Append(imageReports, HasPoster(card.tmdbData))
                          ELSE imageReports
       /\ UNCHANGED <<card, img, mounts>>

\* A lookup settles; the card's .then callback runs in the same microtask
\* checkpoint.
CardSettles ==
    /\ LookupSettles(UIResponses)
    /\ IF lookup.call # 0 /\ calls'[lookup.call].returned
       THEN /\ lookup' = NoClosure
            /\ queued' = IF lookup.cancelled THEN queued
                         ELSE LookupResolved(calls'[lookup.call].result) @@ queued
       ELSE UNCHANGED <<lookup, queued>>
    /\ UNCHANGED <<card, pendingEffects, img, imageReports, dataReports, mounts>>

\* React renders the card with the queued updates and commits; an effect is
\* scheduled when one of its dependencies changed. React runs the pending
\* passive effects of the previous commit before it renders again.
CardRender ==
    LET next == Apply(card, queued)
    IN /\ card.mounted
       /\ queued # EmptyMap
       /\ pendingEffects = {}
       /\ card' = next
       /\ queued' = EmptyMap
       /\ pendingEffects' =
             (IF next.tmdbChecked # card.tmdbChecked THEN {"lookup"} ELSE {})
             \cup (IF \/ next.tmdbChecked # card.tmdbChecked
                      \/ next.tmdbData # card.tmdbData
                      \/ next.statusReported # card.statusReported
                   THEN {"report"} ELSE {})
       /\ img' = ImgAfterRender(img, next)
       /\ UNCHANGED <<lookup, imageReports, dataReports, mounts>>

\* The <img> fires load: handlePosterLoad of the last commit.
handlePosterLoad ==
    /\ card.mounted
    /\ img.state = "loading"
    /\ img' = [img EXCEPT !.state = "complete"]
    /\ IF ~card.statusReported
       THEN /\ imageReports' = Append(imageReports, TRUE)
            /\ queued' = ("posterLoaded" :> TRUE) @@ ("statusReported" :> TRUE) @@ queued
       ELSE /\ imageReports' = imageReports
            /\ queued' = ("posterLoaded" :> TRUE) @@ queued
    /\ UNCHANGED <<card, pendingEffects, lookup, dataReports, mounts>>

\* The <img> fires error: handlePosterError of the last commit.
handlePosterError ==
    /\ card.mounted
    /\ img.state = "loading"
    /\ img' = [img EXCEPT !.state = "complete"]
    /\ IF card.tmdbChecked /\ ~HasPoster(card.tmdbData) /\ ~card.statusReported
       THEN /\ imageReports' = Append(imageReports, FALSE)
            /\ queued' = ("posterError" :> TRUE) @@ ("posterLoaded" :> TRUE)
                            @@ ("statusReported" :> TRUE) @@ queued
       ELSE /\ imageReports' = imageReports
            /\ queued' = ("posterError" :> TRUE) @@ ("posterLoaded" :> TRUE) @@ queued
    /\ UNCHANGED <<card, pendingEffects, lookup, dataReports, mounts>>

\* Mutant: the cleanup does not cancel the lookup's callback.
CardUnmountUncancelled ==
    /\ card.mounted
    /\ card' = [InitialCard(card.movie) EXCEPT !.mounted = FALSE]
    /\ queued' = EmptyMap
    /\ pendingEffects' = {}
    /\ img' = NoImg
    /\ UNCHANGED <<lookup, imageReports, dataReports, mounts>>

\* The grid unmounts the card: the lookup effect's cleanup sets cancelled;
\* effects that have not run are dropped.
CardUnmount ==
    /\ card.mounted
    /\ card' = [InitialCard(card.movie) EXCEPT !.mounted = FALSE]
    /\ queued' = EmptyMap
    /\ pendingEffects' = {}
    /\ lookup' = NoClosure
    /\ img' = NoImg
    /\ UNCHANGED <<imageReports, dataReports, mounts>>

NextCard ==
    \/ \E movie \in CardItems :
          CardMount(movie) /\ UNCHANGED <<timers, saveLog, pureVars, svcVars, bootVars, browserVars>>
    \/ CardEffects /\ UNCHANGED <<timers, saveLog, pureVars, bootVars, browserVars>>
    \/ CardSettles /\ UNCHANGED <<saveLog, pureVars, bootVars, browserVars>>
    \/ CardRender /\ UNCHANGED <<timers, saveLog, pureVars, svcVars, bootVars, browserVars>>
    \/ handlePosterLoad /\ UNCHANGED <<timers, saveLog, pureVars, svcVars, bootVars, browserVars>>
    \/ handlePosterError /\ UNCHANGED <<timers, saveLog, pureVars, svcVars, bootVars, browserVars>>
    \/ CardUnmount /\ UNCHANGED <<timers, saveLog, pureVars, svcVars, bootVars, browserVars>>

SpecCard == Init /\ [][NextCard]_vars

----------------------------------------------------------------------------
(* Claims about the card *)

\* C10: over the lifetime of a mounted card, onImageStatus is invoked at
\* most once, counting the report effect, the image load handler and the
\* image error handler together.
C10_ReportsAtMostOnce == Len(imageReports) <= 1

----------------------------------------------------------------------------
(* ArchiveMovieBrowser: the filter pipeline and the grid of cards          *)

MaxFilterCalls == 1   \* searchMovie invocations per behaviour of SpecFilter
MaxInFlight == 1      \* archive fetches in flight at once in SpecFilter

Range(s) == {s[i] : i \in 1..Len(s)}

\* hasCachedPoster(title, year): "true", "false", or "null" (not known). It
\* builds the key as getCacheKey does and does not look at the timestamp.
hasCachedPoster(cache, title, year) ==
    LET key == trim(toLowerCase(title)) \o <<"-">>
                   \o (IF year # NoYear THEN DigitsOf(year) ELSE Unknown)
    IN IF key \in DOMAIN cache /\ HasPoster(cache[key].data) THEN "true"
       ELSE IF key \in DOMAIN cache /\ cache[key].data = NullData THEN "false"
       ELSE "null"

\* Mutant: 'features' mode keeps every item that has runtime data.
PassesRuntimeAnyLength(m, minRt, ctype) ==
    IF ctype = "trailers"
    THEN m.runtimeMinutes = 0 \/ m.runtimeMinutes <= 30
    ELSE m.runtimeMinutes > 0

\* The runtime / content type test of filteredByRuntime.
PassesRuntime(m, minRt, ctype) ==
    IF ctype = "trailers"
    THEN m.runtimeMinutes = 0 \/ m.runtimeMinutes <= 30
    ELSE m.runtimeMinutes >= minRt

\* Mutant: an item passes the poster test only once a poster is cached.
PosterKnownPresent(m, without, cache) ==
    /\ m.identifier \notin without
    /\ hasCachedPoster(cache, m.title, m.year) = "true"

\* The poster test of filteredByRuntime.
PosterNotKnownMissing(m, without, cache) ==
    /\ m.identifier \notin without
    /\ hasCachedPoster(cache, m.title, m.year) # "false"

\* Mutant: the poster test is applied whether or not a search is active.
FilterByRuntimeAlways(ms, minRt, ctype, search, without, apiKey, cache) ==
    LET filtered == SelectSeq(ms, LAMBDA m : PassesRuntime(m, minRt, ctype))
    IN IF apiKey
       THEN SelectSeq(filtered, LAMBDA m : PosterNotKnownMissing(m, without, cache))
       ELSE filtered

\* Mutant: the poster test does not look at the key.
FilterByRuntimeKeyless(ms, minRt, ctype, search, without, apiKey, cache) ==
    LET filtered == SelectSeq(ms, LAMBDA m : PassesRuntime(m, minRt, ctype))
    IN IF search = <<>>
       THEN SelectSeq(filtered, LAMBDA m : PosterNotKnownMissing(m, without, cache))
       ELSE filtered

\* The function memoized as filteredByRuntime; apiKey is whether tmdbApiKey
\* is a non-empty string.
FilterByRuntime(ms, minRt, ctype, search, without, apiKey, cache) ==
    LET filtered == SelectSeq(ms, LAMBDA m : PassesRuntime(m, minRt, ctype))
    IN IF search = <<>> /\ apiKey
       THEN SelectSeq(filtered, LAMBDA m : PosterNotKnownMissing(m, without, cache))
       ELSE filtered

\* Mutant: an item without a rating sorts above every rated one.
RatingOfUnratedFirst(ratings, id) == IF id \in DOMAIN ratings THEN ratings[id] ELSE 11

\* tmdbRatings[id] || 0
RatingOf(ratings, id) == IF id \in DOMAIN ratings THEN ratings[id] ELSE 0

\* [...filtered].sort((a, b) => ratingB - ratingA): a stable sort, highest
\* rating first.
RECURSIVE SortByRating(_, _)
SortByRating(ms, ratings) ==
    IF ms = <<>> THEN <<>>
    ELSE LET sorted == SortByRating(SubSeq(ms, 1, Len(ms) - 1), ratings)
             x == ms[Len(ms)]
             before == {i \in 1..Len(sorted) :
                          RatingOf(ratings, sorted[i].identifier)
                              >= RatingOf(ratings, x.identifier)}
             n == Cardinality(before)
         IN SubSeq(sorted, 1, n) \o <<x>> \o SubSeq(sorted, n + 1, Len(sorted))

\* The function memoized as displayedMovies.
DisplayedMovies(filtered, genre, sort, ratings) ==
    LET byGenre == IF genre = "all" THEN filtered
                   ELSE SelectSeq(filtered, LAMBDA m : genre \in Range(m.genres))
    IN IF sort = "tmdb_rating" THEN SortByRating(byGenre, ratings) ELSE byGenre

\* The display list of the last commit.
displayedMovies == DisplayedMovies(filteredByRuntime, genreFilter, sortBy, tmdbRatings)

\* Mutant: a report that the image is there takes the identifier out.
handleImageStatusToggle(prev, id, hasImage) ==
    IF ~hasImage THEN prev \cup {id} ELSE prev \ {id}

\* handleImageStatus(id, hasImage): the next moviesWithoutImages
handleImageStatus(prev, id, hasImage) == IF ~hasImage THEN prev \cup {id} ELSE prev

\* handleTmdbData(id, data): the next tmdbRatings
handleTmdbData(prev, id, data) ==
    IF data # NullData /\ data.voteAverage # 0
    THEN (id :> data.voteAverage) @@ prev
    ELSE prev

\* A card of the grid, with its state committed between events: whether its
\* lookup effect has run, the searchMovie call it awaits, tmdbChecked,
\* tmdbData, statusReported.
FreshCard ==
    [looked |-> FALSE, call |-> 0, checked |-> FALSE, data |-> NullData,
     reported |-> FALSE]

\* The browser commits: filteredByRuntime is recomputed when one of its
\* dependencies changed (reading the cache as it is now), displayedMovies
\* follows, and the grid keeps the cards of the identifiers still displayed,
\* mounts cards for the new ones and unmounts the others; while loading
\* there is no grid.
Commit(movies2, loading2, search2, genre2, minRt2, ctype2, sort2, without2, ratings2, depsChanged, cards2) ==
    LET filtered == IF depsChanged
                    THEN FilterByRuntime(movies2, minRt2, ctype2, search2, without2,
                                         enabled, tmdbCache)
                    ELSE filteredByRuntime
        shown == IF loading2 THEN {}
                 ELSE {m.identifier :
                          m \in Range(DisplayedMovies(filtered, genre2, sort2, ratings2))}
    IN /\ movies' = movies2
       /\ loading' = loading2
       /\ activeSearch' = search2
       /\ genreFilter' = genre2
       /\ minRuntime' = minRt2
       /\ contentType' = ctype2
       /\ sortBy' = sort2
       /\ moviesWithoutImages' = without2
       /\ tmdbRatings' = ratings2
       /\ filteredByRuntime' = filtered
       /\ cards' = [id \in shown |->
                       IF id \in DOMAIN cards2 THEN cards2[id] ELSE FreshCard]

\* A handler changed a dependency of fetchMovies (or the page): the fetch
\* effect of the same commit calls fetchMovies(1, false), which sets loading
\* and clears the error before its first await.
Refetch(depsChanged) ==
    /\ depsChanged => inflight < MaxInFlight
    /\ inflight' = IF depsChanged THEN inflight + 1 ELSE inflight
    /\ error' = IF depsChanged THEN NullStr ELSE error

\* onChange of the search box
SetSearchQuery(q) ==
    /\ searchQuery' = q
    /\ UNCHANGED <<movies, loading, inflight, activeSearch, genreFilter, minRuntime,
                   contentType, sortBy, page, moviesWithoutImages, tmdbRatings,
                   filteredByRuntime, cards>>

handleSearch ==
    LET refetch == activeSearch # searchQuery \/ genreFilter # "all" \/ page # FIRST_PAGE
    IN /\ Refetch(refetch)
       /\ page' = FIRST_PAGE
       /\ Commit(movies, loading \/ refetch, searchQuery, "all", minRuntime,
                 contentType, sortBy, {}, tmdbRatings, TRUE, cards)
       /\ UNCHANGED searchQuery

handleGenreChange(genre) ==
    LET refetch == genreFilter # genre \/ page # FIRST_PAGE
    IN /\ Refetch(refetch)
       /\ page' = FIRST_PAGE
       /\ Commit(movies, loading \/ refetch, activeSearch, genre, minRuntime,
                 contentType, sortBy, {}, tmdbRatings, TRUE, cards)
       /\ UNCHANGED searchQuery

handleSortChange(newSort) ==
    LET refetch == sortBy # newSort \/ page # FIRST_PAGE
    IN /\ Refetch(refetch)
       /\ page' = FIRST_PAGE
       /\ Commit(movies, loading \/ refetch, activeSearch, genreFilter, minRuntime,
                 contentType, newSort, {}, tmdbRatings, TRUE, cards)
       /\ UNCHANGED searchQuery

\* The "Full Movies" / "Shorts" buttons and the runtime select.
SetContentType(ctype, minRt) ==
    /\ Commit(movies, loading, activeSearch, genreFilter, minRt, ctype, sortBy,
              moviesWithoutImages, tmdbRatings,
              ctype # contentType \/ minRt # minRuntime, cards)
    /\ UNCHANGED <<inflight, searchQuery, page>>

ShowFeatures == SetContentType("features", DEFAULT_MIN_RUNTIME)
ShowTrailers == SetContentType("trailers", 0)
SetMinRuntime(minRt) == SetContentType(contentType, minRt)

\* archiveService.fetchMovies resolves or rejects: fetchMovies(1, false)
\* continues with setMovies (the empty list after an error) and
\* setLoading(false).
FetchReturns(result) ==
    /\ inflight > 0
    /\ inflight' = inflight - 1
    /\ Commit(result, FALSE, activeSearch, genreFilter, minRuntime, contentType,
              sortBy, moviesWithoutImages, tmdbRatings, TRUE, cards)
    /\ UNCHANGED <<searchQuery, page>>

\* The item a mounted card shows.
ItemOf(id) == CHOOSE m \in Range(movies) : m.identifier = id

\* The lookup effect of a card of the grid.
GridCardLookup(id) ==
    /\ id \in DOMAIN cards
    /\ ~cards[id].looked
    /\ IF tmdbEnabled /\ ItemOf(id).title # <<>>
       THEN /\ SearchMovie({<<ItemOf(id).title, ItemOf(id).year>>}, MaxFilterCalls)
            /\ LET c == Len(calls')
               IN cards' = [cards EXCEPT ![id] =
                      IF calls'[c].returned
                      THEN [@ EXCEPT !.looked = TRUE, !.checked = TRUE,
                                     !.data = calls'[c].result]
                      ELSE [@ EXCEPT !.looked = TRUE, !.call = c]]
       ELSE /\ UNCHANGED svcVars
            /\ cards' = [cards EXCEPT ![id] =
                            [@ EXCEPT !.looked = TRUE, !.checked = ~tmdbEnabled]]
    /\ UNCHANGED <<movies, loading, inflight, searchQuery, activeSearch, genreFilter,
                   minRuntime, contentType, sortBy, page, moviesWithoutImages,
                   tmdbRatings, filteredByRuntime>>

\* A lookup settles; the cards awaiting it get its value.
GridSettles ==
    /\ LookupSettles(UIResponses)
    /\ cards' = [id \in DOMAIN cards |->
                    IF cards[id].call # 0 /\ calls'[cards[id].call].returned
                    THEN [cards[id] EXCEPT !.call = 0, !.checked = TRUE,
                                           !.data = calls'[cards[id].call].result]
                    ELSE cards[id]]
    /\ UNCHANGED <<movies, loading, inflight, searchQuery, activeSearch, genreFilter,
                   minRuntime, contentType, sortBy, page, moviesWithoutImages,
                   tmdbRatings, filteredByRuntime>>

\* The report effect of a card of the grid: onTmdbData, onImageStatus.
GridCardReport(id) ==
    /\ id \in DOMAIN cards
    /\ cards[id].checked
    /\ ~cards[id].reported
    /\ Commit(movies, loading, activeSearch, genreFilter, minRuntime, contentType,
              sortBy,
              handleImageStatus(moviesWithoutImages, id, HasPoster(cards[id].data)),
              handleTmdbData(tmdbRatings, id, cards[id].data),
              ~HasPoster(cards[id].data),
              [cards EXCEPT ![id].reported = TRUE])
    /\ UNCHANGED <<inflight, searchQuery, page>>

\* The image of a card of the grid loads before the card has reported.
GridCardImageLoad(id) ==
    /\ id \in DOMAIN cards
    /\ ~cards[id].reported
    /\ Commit(movies, loading, activeSearch, genreFilter, minRuntime, contentType,
              sortBy, handleImageStatus(moviesWithoutImages, id, TRUE), tmdbRatings,
              FALSE, [cards EXCEPT ![id].reported = TRUE])
    /\ UNCHANGED <<inflight, searchQuery, page>>

\* The image of a card of the grid fails after its lookup resolved without
\* a poster and before the card has reported.
GridCardImageError(id) ==
    /\ id \in DOMAIN cards
    /\ cards[id].checked
    /\ ~HasPoster(cards[id].data)
    /\ ~cards[id].reported
    /\ Commit(movies, loading, activeSearch, genreFilter, minRuntime, contentType,
              sortBy, handleImageStatus(moviesWithoutImages, id, FALSE), tmdbRatings,
              TRUE, [cards EXCEPT ![id].reported = TRUE])
    /\ UNCHANGED <<inflight, searchQuery, page>>

\* What the user types, picks and gets from the archive in SpecFilter. The
\* clock stands still: the first lookup of a session is never throttled.
Queries == {<<>>, <<"a", "l">>}
Genres == {"all", "Horror"}
Sorts == {"downloads", "tmdb_rating"}
MinRuntimes == {20}
FetchResults == {<<>>, <<ItemAl, ItemB>>}

\* The browser is mounted and its mount effects have run: setApiKey (when
\* there is a key) and fetchMovies(1, false), which is in flight.
InitFilter ==
    /\ ServiceStarted
    /\ NothingElse
    /\ NoCardMounted
    /\ InitialBrowser
    /\ loading = TRUE
    /\ inflight = 1

NextFilter ==
    \/ \E q \in Queries : SetSearchQuery(q) /\ UNCHANGED <<timers, saveLog, pureVars, svcVars, bootVars, cardVars, error, retries, issued>>
    \/ handleSearch /\ UNCHANGED <<timers, saveLog, pureVars, svcVars, bootVars, cardVars, retries, issued>>
    \/ \E g \in Genres : handleGenreChange(g) /\ UNCHANGED <<timers, saveLog, pureVars, svcVars, bootVars, cardVars, retries, issued>>
    \/ \E s \in Sorts : handleSortChange(s) /\ UNCHANGED <<timers, saveLog, pureVars, svcVars, bootVars, cardVars, retries, issued>>
    \/ ShowFeatures /\ UNCHANGED <<timers, saveLog, pureVars, svcVars, bootVars, cardVars, error, retries, issued>>
    \/ ShowTrailers /\ UNCHANGED <<timers, saveLog, pureVars, svcVars, bootVars, cardVars, error, retries, issued>>
    \/ \E n \in MinRuntimes : SetMinRuntime(n) /\ UNCHANGED <<timers, saveLog, pureVars, svcVars, bootVars, cardVars, error, retries, issued>>
    \/ \E result \in FetchResults :
          FetchReturns(result) /\ UNCHANGED <<timers, saveLog, pureVars, svcVars, bootVars, cardVars, error, retries, issued>>
    \/ \E id \in DOMAIN cards : GridCardLookup(id) /\ UNCHANGED <<timers, saveLog, pureVars, bootVars, cardVars, error, retries, issued>>
    \/ GridSettles /\ UNCHANGED <<saveLog, pureVars, bootVars, cardVars, error, retries, issued>>
    \/ \E id \in DOMAIN cards : GridCardReport(id) /\ UNCHANGED <<timers, saveLog, pureVars, svcVars, bootVars, cardVars, error, retries, issued>>
    \/ \E id \in DOMAIN cards : GridCardImageLoad(id) /\ UNCHANGED <<timers, saveLog, pureVars, svcVars, bootVars, cardVars, error, retries, issued>>
    \/ \E id \in DOMAIN cards : GridCardImageError(id) /\ UNCHANGED <<timers, saveLog, pureVars, svcVars, bootVars, cardVars, error, retries, issued>>

SpecFilter == InitFilter /\ [][NextFilter]_vars

----------------------------------------------------------------------------
(* Claims about the filter pipeline *)

\* The items of the loaded list that pass the runtime and genre filters.
PassesFilters(m) ==
    /\ PassesRuntime(m, minRuntime, contentType)
    /\ genreFilter = "all" \/ genreFilter \in Range(m.genres)

\* The code's notion of a confirmed missing poster: the identifier was
\* reported as lacking an image, or the lookup is cached with no match.
ConfirmedMissing(m) ==
    \/ m.identifier \in moviesWithoutImages
    \/ hasCachedPoster(tmdbCache, m.title, m.year) = "false"

\* C8: while a text search is active, every loaded item that passes the
\* runtime and genre filters is in the display list, whether or not it is in
\* the known-missing-poster set or has a cached no-match.
C8_SearchKeepsPosterless ==
    activeSearch # <<>> =>
        \A m \in Range(movies) : PassesFilters(m) => m \in Range(displayedMovies)

\* With a key configured and a search active, an item that was reported as
\* lacking an image and whose lookup is cached with no match is displayed
\* in the grid.
C8_Witness ==
    /\ enabled
    /\ activeSearch # <<>>
    /\ \E id \in DOMAIN cards :
          /\ id \in moviesWithoutImages
          /\ hasCachedPoster(tmdbCache, ItemOf(id).title, ItemOf(id).year) = "false"
          /\ ItemOf(id) \in Range(displayedMovies)

\* Nothing is under way: no archive fetch, no lookup, and every card of the
\* grid has made its report.
Settled ==
    /\ ~loading
    /\ inflight = 0
    /\ pendingRequests = EmptyMap
    /\ \A id \in DOMAIN cards : cards[id].reported

\* C9: with a key configured and no active text search, once nothing is
\* under way the display list holds no item with a confirmed missing poster
\* (the claim says so of every state; this is the weaker statement for the
\* states in which no update is still on its way).
C9_NoConfirmedMissingShown ==
    (enabled /\ activeSearch = <<>> /\ Settled) =>
        \A m \in Range(displayedMovies) : ~ConfirmedMissing(m)


----------------------------------------------------------------------------
(* The best-match selection of _fetchFromTMDB, applied to result lists *)

\* A service that was just loaded with nothing stored and no key set.
ServiceFresh ==
    /\ now = StartTime
    /\ enabled = FALSE
    /\ localStorage = NoItem
    /\ loadedItem = NoItem
    /\ phase = "up"
    /\ tmdbCache = EmptyMap
    /\ pendingRequests = EmptyMap
    /\ lastRequestTime = 0
    /\ saveTimeout = 0
    /\ requests = <<>>
    /\ calls = <<>>
    /\ fetches = <<>>

MaxResults == 2

\* Candidates whose titles equal "Al", contain it, are contained in it, or
\* are unrelated to it; with and without a poster.
CandAlz == [id |-> 4, title |-> <<"A", "l", "z">>, poster_path |-> "/alz.jpg", vote_average |-> 5]
CandA == [id |-> 5, title |-> <<"A">>, poster_path |-> NullStr, vote_average |-> 4]
CandB == [id |-> 6, title |-> T_B, poster_path |-> "/b.jpg", vote_average |-> 8]
CandPool == {CandAl, CandAlz, CandA, CandB, CandZ}

ResultLists == UNION {[1..n -> CandPool] : n \in 0..MaxResults}

\* The titles looked up.
MatchTitles == {T_Al, T_al_, T_c}

InitMatch ==
    /\ ServiceFresh
    /\ NoCardMounted
    /\ BrowserNotMounted
    /\ timers = {}
    /\ saveLog = <<>>
    /\ fnArgs \in ResultLists \X MatchTitles
    /\ fnRet = <<>>

\* bestMatch is computed for data.results and cleanTitle(title).
SelectBestMatch ==
    /\ fnRet = <<>>
    /\ fnRet' = <<BestMatch(fnArgs[1], cleanTitle(fnArgs[2]))>>
    /\ UNCHANGED fnArgs

NextMatch ==
    SelectBestMatch /\ UNCHANGED <<timers, saveLog, svcVars, bootVars, uiVars>>

SpecMatch == InitMatch /\ [][NextMatch]_vars

\* The candidates of a list, and the relations of a candidate's title to the
\* normalized query title.
Candidates(results) == {results[i] : i \in 1..Len(results)}
EqualsQuery(movie, title) == toLowerCase(movie.title) = toLowerCase(cleanTitle(title))
ContainsQuery(movie, title) ==
    includes(toLowerCase(movie.title), toLowerCase(cleanTitle(title)))
ContainedInQuery(movie, title) ==
    includes(toLowerCase(cleanTitle(title)), toLowerCase(movie.title))
Related(movie, title) ==
    EqualsQuery(movie, title) \/ ContainsQuery(movie, title) \/ ContainedInQuery(movie, title)

\* C11: when the result list holds a candidate whose title equals the
\* normalized query title case-insensitively, the selected candidate is such
\* an exact match, whatever its rank and whatever the other candidates.
C11_ExactMatchSelected ==
    (fnRet # <<>> /\ \E m \in Candidates(fnArgs[1]) : EqualsQuery(m, fnArgs[2]))
        => /\ fnRet[1] # <<>>
           /\ EqualsQuery(fnRet[1][1], fnArgs[2])

\* C12: when no candidate's title equals, contains or is contained in the
\* normalized query title, the selection is the top-ranked candidate if it
\* carries a poster reference and no match otherwise; an empty list always
\* yields no match.
C12_FallbackNeedsPoster ==
    fnRet # <<>> =>
        /\ fnArgs[1] = <<>> => fnRet[1] = <<>>
        /\ (fnArgs[1] # <<>> /\ \A m \in Candidates(fnArgs[1]) : ~Related(m, fnArgs[2]))
              => IF fnArgs[1][1].poster_path # NullStr
                 THEN fnRet[1] = <<fnArgs[1][1]>>
                 ELSE fnRet[1] = <<>>

\* A posterless unrelated candidate ranks above an unrelated one with a
\* poster, and nothing was selected.
C12_Witness ==
    /\ fnArgs = <<<<CandZ, CandB>>, T_Al>>
    /\ fnRet = <<<<>>>>


----------------------------------------------------------------------------
(* The browser without an API key: the grid and the detail page *)

MaxDetailCalls == 2

\* The user opens the detail page of a displayed item: MovieDetailPage's
\* effect calls searchMovie without looking at the key.
DetailLookup ==
    /\ \E m \in Range(displayedMovies) :
          SearchMovie({<<m.title, m.year>>}, MaxDetailCalls)
    /\ UNCHANGED browserVars

InitNoKey ==
    /\ InitFilter
    /\ ~enabled

NextNoKey ==
    \/ \E q \in Queries : SetSearchQuery(q) /\ UNCHANGED <<timers, saveLog, pureVars, svcVars, bootVars, cardVars, error, retries, issued>>
    \/ handleSearch /\ UNCHANGED <<timers, saveLog, pureVars, svcVars, bootVars, cardVars, retries, issued>>
    \/ \E g \in Genres : handleGenreChange(g) /\ UNCHANGED <<timers, saveLog, pureVars, svcVars, bootVars, cardVars, retries, issued>>
    \/ \E s \in Sorts : handleSortChange(s) /\ UNCHANGED <<timers, saveLog, pureVars, svcVars, bootVars, cardVars, retries, issued>>
    \/ ShowFeatures /\ UNCHANGED <<timers, saveLog, pureVars, svcVars, bootVars, cardVars, error, retries, issued>>
    \/ ShowTrailers /\ UNCHANGED <<timers, saveLog, pureVars, svcVars, bootVars, cardVars, error, retries, issued>>
    \/ \E n \in MinRuntimes : SetMinRuntime(n) /\ UNCHANGED <<timers, saveLog, pureVars, svcVars, bootVars, cardVars, error, retries, issued>>
    \/ \E result \in FetchResults :
          FetchReturns(result) /\ UNCHANGED <<timers, saveLog, pureVars, svcVars, bootVars, cardVars, error, retries, issued>>
    \/ \E id \in DOMAIN cards : GridCardLookup(id) /\ UNCHANGED <<timers, saveLog, pureVars, bootVars, cardVars, error, retries, issued>>
    \/ \E id \in DOMAIN cards : GridCardReport(id) /\ UNCHANGED <<timers, saveLog, pureVars, svcVars, bootVars, cardVars, error, retries, issued>>
    \/ \E id \in DOMAIN cards : GridCardImageLoad(id) /\ UNCHANGED <<timers, saveLog, pureVars, svcVars, bootVars, cardVars, error, retries, issued>>
    \/ \E id \in DOMAIN cards : GridCardImageError(id) /\ UNCHANGED <<timers, saveLog, pureVars, svcVars, bootVars, cardVars, error, retries, issued>>
    \/ DetailLookup /\ UNCHANGED <<timers, saveLog, pureVars, bootVars, cardVars>>

SpecNoKey == InitNoKey /\ [][NextNoKey]_vars

\* A searchMovie call made in this step while the service is disabled
\* returned null at once and touched nothing.
DisabledCallIsInert ==
    (~enabled /\ Len(calls') = Len(calls) + 1) =>
        /\ calls'[Len(calls')].returned
        /\ calls'[Len(calls')].result = NullData
        /\ calls'[Len(calls')].req = 0
        /\ UNCHANGED <<fetches, requests, tmdbCache, pendingRequests, lastRequestTime>>

\* Every loaded item that passes the runtime / content-type filter is in
\* filteredByRuntime.
PosterFilterExcludesNothing ==
    \A m \in Range(movies) :
        PassesRuntime(m, minRuntime, contentType) => m \in Range(filteredByRuntime)

\* C13: while the service is disabled, searchMovie returns null for every
\* (title, year), issues no network request and leaves the cache, the
\* pending-request map and the rate-limiter clock unchanged; and with no API
\* key the poster filter excludes no item.
C13_DisabledIsInert ==
    /\ [][DisabledCallIsInert]_vars
    /\ [](~enabled => PosterFilterExcludesNothing /\ fetches = <<>>)

\* Without a key and without a search: the detail page's lookup returned
\* null, and an item that its card reported as lacking an image is still
\* displayed.
C13_Witness ==
    /\ ~enabled
    /\ activeSearch = <<>>
    /\ calls # <<>>
    /\ calls[1].returned /\ calls[1].result = NullData
    /\ \E m \in Range(displayedMovies) : m.identifier \in moviesWithoutImages


----------------------------------------------------------------------------
(* Claims about the expiry of cache entries *)

\* The entry stored under the key of (title, year) is younger than 7 days.
Fresh(title, year) ==
    /\ getCacheKey(title, year) \in DOMAIN tmdbCache
    /\ now - tmdbCache[getCacheKey(title, year)].timestamp < CACHE_DURATION

\* An entry is stored under the key of (title, year) and its own timestamp
\* is 7 days old or older.
Expired(title, year) ==
    /\ getCacheKey(title, year) \in DOMAIN tmdbCache
    /\ now - tmdbCache[getCacheKey(title, year)].timestamp >= CACHE_DURATION

\* A step of the service seen from the entries of the cache.
ExpiryStep ==
    /\ \A m \in Movies :
          /\ Fresh(m[1], m[2]) =>
                /\ getFromCache(m[1], m[2]).found
                /\ Len(requests') > Len(requests) =>
                      requests'[Len(requests')].key # getCacheKey(m[1], m[2])
          /\ Expired(m[1], m[2]) =>
                /\ ~getFromCache(m[1], m[2]).found
                /\ (/\ enabled
                    /\ Len(calls') > Len(calls)
                    /\ calls'[Len(calls')].key = getCacheKey(m[1], m[2])
                    /\ getCacheKey(m[1], m[2]) \notin DOMAIN pendingRequests)
                      => /\ Len(requests') = Len(requests) + 1
                         /\ requests'[Len(requests')].key = getCacheKey(m[1], m[2])
                         /\ calls'[Len(calls')].owner
    /\ \A r \in RequestIds :
          (requests[r].pc # "done" /\ requests'[r].pc = "done") =>
              tmdbCache'[requests[r].key] =
                  [data |-> requests'[r].result, timestamp |-> now]

\* C14: a resolved cache entry (match or explicit no-match) is not
\* re-fetched while it is younger than 7 days; once its own timestamp is 7
\* days old or older, getFromCache reports found = false for it, and the next
\* searchMovie for that key issues a new request whose settling overwrites
\* the entry with a fresh timestamp.
C14_EntryExpiresAfterTTL == [][ExpiryStep]_vars

\* The entry restored from storage answered a first call while it was
\* younger than 7 days; a second call, made when the entry was exactly 7
\* days old, started a lookup, and the lookup's result replaced the entry.
C14_Witness ==
    /\ Len(calls) = 2
    /\ calls[1].foundAtCall /\ calls[1].stamp = OldStamp
    /\ calls[2].key = calls[1].key
    /\ calls[2].at - OldStamp = CACHE_DURATION
    /\ ~calls[2].foundAtCall /\ calls[2].owner /\ calls[2].returned
    /\ tmdbCache[calls[2].key].timestamp = calls[2].stamp
    /\ calls[2].stamp > OldStamp


----------------------------------------------------------------------------
(* The debounced save: setCache calls and timer runs on a one-second grid *)

MaxSetCalls == 3
MaxDebounceSteps == 6

DebounceInstants ==
    {StartTime + (SAVE_DELAY \div 2) * i : i \in 0..MaxDebounceSteps}

SetCacheCalls == {i \in 1..Len(saveLog) : saveLog[i].op = "setCache"}
Saves == {i \in 1..Len(saveLog) : saveLog[i].op = "save"}

InitDebounce ==
    /\ ServiceFresh
    /\ NothingElse
    /\ NoCardMounted
    /\ BrowserNotMounted

\* setCache is called. A timer that is due runs first.
DebounceSetCache ==
    /\ Cardinality(SetCacheCalls) < MaxSetCalls
    /\ \A due \in timers : due > now
    /\ SetCacheCall
    /\ saveLog' = Append(saveLog, [op |-> "setCache", at |-> now])

\* The timer runs saveCacheToStorage.
DebounceSave ==
    /\ SaveFires
    /\ saveLog' = Append(saveLog, [op |-> "save", at |-> now])

\* Time passes, up to the instant the next timer is due: the event loop is
\* idle, so a timer runs at the instant it is due.
DebounceTick ==
    /\ Tick(DebounceInstants)
    /\ \A due \in timers : now' <= due

NextDebounce ==
    \/ DebounceSetCache /\ UNCHANGED <<pureVars, uiVars>>
    \/ DebounceSave /\ UNCHANGED <<pureVars, bootVars, uiVars>>
    \/ DebounceTick /\ UNCHANGED <<timers, saveLog, pureVars, bootVars, uiVars>>

SpecDebounce == InitDebounce /\ [][NextDebounce]_vars

----------------------------------------------------------------------------
(* Claims about failures of durable storage *)

\* This step is the evaluation of tmdb.js.
IsModuleInit == phase = "boot" /\ phase' = "up"

\* This step is a run of saveCacheToStorage.
IsSave == phase = "up" /\ phase' = "up" /\ timers' # timers /\ timers' \subseteq timers

\* This step is a setCache call.
IsSetCache == phase = "up" /\ phase' = "up" /\ now + SAVE_DELAY \in timers' /\ ~IsSave

StorageFailureStep ==
    /\ (IsModuleInit /\ localStorage = CorruptItem) =>
          /\ tmdbCache' = tmdbCache
          /\ localStorage' = localStorage
    /\ (IsSave /\ localStorage' # Envelope(CACHE_VERSION, tmdbCache, now)) =>
          tmdbCache' = tmdbCache
    /\ IsSetCache =>
          \E m \in StorageMovies :
              /\ getFromCacheAt(tmdbCache', now, m[1], m[2]).found
              /\ tmdbCache'[getCacheKey(m[1], m[2])].timestamp = now
              /\ \A k \in DOMAIN tmdbCache \ {getCacheKey(m[1], m[2])} :
                    k \in DOMAIN tmdbCache' /\ tmdbCache'[k] = tmdbCache[k]

\* C16: when reading or writing durable storage fails, module
\* initialisation still completes, the in-memory cache is left as it was by
\* the failure, and setCache keeps writing entries that getFromCache serves
\* for the rest of the session.
C16_StorageFailuresContained ==
    /\ [][StorageFailureStep]_vars
    /\ [](phase = "boot" => ENABLED ModuleInit)

\* The stored item could not be parsed at start-up; two entries were cached
\* since; the save failed and removed the item; both entries are served.
C16_Witness ==
    /\ phase = "up"
    /\ loadedItem = CorruptItem
    /\ localStorage = NoItem
    /\ timers = {}
    /\ \A m \in StorageMovies : getFromCache(m[1], m[2]).found


----------------------------------------------------------------------------
(* Claims about the save / load round trip *)

\* The stored item was written by this build less than 7 days before t.
Valid(item, t) ==
    /\ item.kind = "envelope"
    /\ item.version = CACHE_VERSION
    /\ t - item.timestamp < CACHE_DURATION

RoundTripStep ==
    /\ (IsSave /\ localStorage' = Envelope(CACHE_VERSION, tmdbCache, now)) =>
          \A t \in StorageInstants :
              (t >= now /\ t - now < CACHE_DURATION) =>
                  loadCacheFromStorage(localStorage', t).cache = tmdbCache
    /\ (IsModuleInit /\ Valid(localStorage, now)) =>
          /\ DOMAIN tmdbCache' = {p[1] : p \in localStorage.data}
          /\ \A p \in localStorage.data : tmdbCache'[p[1]] = p[2]
          /\ \A m \in StorageMovies :
                LET key == getCacheKey(m[1], m[2])
                    got == getFromCacheAt(tmdbCache', now, m[1], m[2])
                IN /\ key \notin DOMAIN tmdbCache' => got = NotFound
                   /\ (/\ key \in DOMAIN tmdbCache'
                       /\ tmdbCache'[key].data = NullData
                       /\ now - tmdbCache'[key].timestamp < CACHE_DURATION)
                         => got = Found(NullData) /\ got # NotFound

\* C17: saving the cache and loading it with the same CACHE_VERSION less
\* than 7 days later restores every key with the same record and the same
\* per-entry timestamp, tombstones included, which stay distinguishable from
\* keys that were never looked up.
C17_SaveLoadRoundTrip == [][RoundTripStep]_vars

\* The module was loaded from an envelope saved earlier in the run; a
\* tombstone came back with its timestamp and is served as a cached null,
\* while the other key is reported as not cached.
C17_Witness ==
    /\ phase = "up"
    /\ Valid(loadedItem, now)
    /\ loadedItem.timestamp > StartTime
    /\ tmdbCache = MapFromEntries(loadedItem.data)
    /\ \E m1, m2 \in StorageMovies :
          /\ getFromCache(m1[1], m1[2]) = Found(NullData)
          /\ tmdbCache[getCacheKey(m1[1], m1[2])].timestamp < loadedItem.timestamp
          /\ getFromCache(m2[1], m2[2]) = NotFound


----------------------------------------------------------------------------
(* Claims about the cache key *)

\* The two calls are for items whose titles are equal after lower-casing and
\* trimming and whose years are equal or both absent.
SameItem(c, d) ==
    /\ trim(toLowerCase(calls[c].title)) = trim(toLowerCase(calls[d].title))
    /\ calls[c].year = calls[d].year

RequestsFor(key) == {r \in RequestIds : requests[r].key = key}

\* C18 as stated: two such items have the same key and cause at most one
\* network request between them.
C18_Original ==
    \A c, d \in CallIds :
        SameItem(c, d) =>
            /\ calls[c].key = calls[d].key
            /\ Cardinality(RequestsFor(calls[c].key)) <= 1

\* C18 amended: two such items have the same key, hence one cache entry, and
\* a second request for that key is created only once the first has settled
\* and the entry it wrote is 7 days old or older; a later call made while
\* the entry is younger is answered from it.
C18_SharedKeyWithinTTL ==
    \A c, d \in CallIds :
        SameItem(c, d) =>
            /\ calls[c].key = calls[d].key
            /\ getCacheKey(calls[c].title, calls[c].year)
                  = getCacheKey(calls[d].title, calls[d].year)
            /\ \A r, q \in RequestsFor(calls[c].key) :
                  r < q => /\ requests[r].pc = "done"
                           /\ requests[q].createdAt - requests[r].settledAt
                                 >= CACHE_DURATION
            /\ (/\ c \in calls[d].returnedBefore
                /\ calls[c].req # 0
                /\ calls[d].enabledAtCall
                /\ calls[d].at - calls[c].stamp < CACHE_DURATION)
                  => /\ calls[d].foundAtCall
                     /\ calls[d].req = 0
                     /\ calls[d].result = calls[c].result

\* Two calls whose titles differ as strings ("Al" and "al ") and share a
\* key: the first performed the lookup, the second was answered from the
\* entry it wrote, and one request was made.
C18_Witness ==
    \E c, d \in CallIds :
        /\ SameItem(c, d)
        /\ calls[c].title # calls[d].title
        /\ calls[c].owner /\ calls[c].returned
        /\ calls[d].foundAtCall /\ calls[d].returned
        /\ calls[d].result = calls[c].result
        /\ calls[d].result # NullData
        /\ Cardinality(RequestsFor(calls[c].key)) = 1


----------------------------------------------------------------------------
(* Lookups for raw titles that cleanTitle maps to the same string *)

MaxNormCalls == 2

T_B1963 == <<"B", " ", "(", "1", "9", "6", "3", ")">>

\* Two items of the same film and year: one title carries the year.
NormMovies == {<<T_B, 1963>>, <<T_B1963, 1963>>}

NormResponses ==
    {[kind |-> "ok", results |-> rs] : rs \in {<<>>, <<CandB>>}}

\* Two instants within one rate-limiter interval of start-up.
NormInstants == {StartTime, StartTime + MIN_REQUEST_INTERVAL}

NextNorm ==
    \/ SearchMovie(NormMovies, MaxNormCalls) /\ UNCHANGED <<timers, saveLog, pureVars, bootVars, uiVars>>
    \/ ThrottleWake /\ UNCHANGED <<timers, saveLog, pureVars, bootVars, uiVars>>
    \/ LookupSettles(NormResponses) /\ UNCHANGED <<saveLog, pureVars, bootVars, uiVars>>
    \/ Tick(NormInstants) /\ UNCHANGED <<timers, saveLog, pureVars, bootVars, uiVars>>

SpecNorm == Init /\ [][NextNorm]_vars

\* The fetches whose query is the normalized title, with the year hint.
QueriesFor(title, year) ==
    {f \in 1..Len(fetches) :
        fetches[f].query = cleanTitle(title) /\ fetches[f].year = year}

\* C19: two raw titles that cleanTitle maps to the same string, with the
\* same year, have the same cache and de-duplication key, and at most one
\* external query is made for that normalized title and year.
C19_KeyFromNormalizedTitle ==
    \A c, d \in CallIds :
        (/\ cleanTitle(calls[c].title) = cleanTitle(calls[d].title)
         /\ calls[c].year = calls[d].year)
            => /\ calls[c].key = calls[d].key
               /\ Cardinality(QueriesFor(calls[c].title, calls[c].year)) <= 1


----------------------------------------------------------------------------
(* cleanTitle applied to titles *)

MaxSuffixes == 2

\* Titles are a base followed by up to MaxSuffixes suffixes.
T_GreatEscape == <<"T", "h", "e", " ", "G", "r", "e", "a", "t", " ", "E", "s", "c", "a", "p", "e">>
T_Metropolis == <<"M", "e", "t", "r", "o", "p", "o", "l", "i", "s">>
T_Nosferatu == <<"N", "o", "s", "f", "e", "r", "a", "t", "u">>
T_A_B == <<"A", "_", "B">>
TitleBases ==
    {T_GreatEscape, T_Metropolis, T_Nosferatu, T_A_B, T_Al, <<>>,
     <<"A", " ", "&", " ", "b">>, <<" ", "a", ".", " ", " ", "B", " ">>}

ParenYear == <<" ", "(", "1", "9", "6", "3", ")">>
BracketYear == <<" ", "[", "1", "9", "2", "7", "]">>
DashYear == <<" ", "-", " ", "1", "9", "2", "2">>
YearSuffixes == {ParenYear, BracketYear, DashYear}
TitleSuffixes == YearSuffixes \cup {<<" ", "(", "1", "9", "6", ")">>, <<"-", "1", "9", "2", "2", " ">>}

RECURSIVE Concat(_)
Concat(ss) == IF ss = <<>> THEN <<>> ELSE Head(ss) \o Concat(Tail(ss))

\* The title made of a base and its suffixes.
TitleOf(base, suffixes) == base \o Concat(suffixes)

InitTitle ==
    /\ ServiceFresh
    /\ NoCardMounted
    /\ BrowserNotMounted
    /\ timers = {}
    /\ saveLog = <<>>
    /\ fnArgs \in TitleBases \X UNION {[1..n -> TitleSuffixes] : n \in 0..MaxSuffixes}
    /\ fnRet = <<>>

\* tmdbService.cleanTitle(title)
CallCleanTitle ==
    /\ fnRet = <<>>
    /\ fnRet' = <<cleanTitle(TitleOf(fnArgs[1], fnArgs[2]))>>
    /\ UNCHANGED fnArgs

NextTitle ==
    CallCleanTitle /\ UNCHANGED <<timers, saveLog, svcVars, bootVars, uiVars>>

SpecTitle == InitTitle /\ [][NextTitle]_vars

Alphanumeric == Letters \cup Digits

\* C20: cleanTitle removes a trailing "(YYYY)", a trailing "[YYYY]" and a
\* trailing "- YYYY", replaces every character that is not alphanumeric by a
\* space and collapses repeated whitespace; the result is a string, possibly
\* empty; "The Great Escape (1963)" gives "The Great Escape",
\* "Metropolis [1927]" gives "Metropolis", "Nosferatu - 1922" gives
\* "Nosferatu".
C20_CleanTitle ==
    fnRet # <<>> =>
        LET base == fnArgs[1]
            suffixes == fnArgs[2]
            r == fnRet[1]
        IN /\ (Len(suffixes) = 1 /\ suffixes[1] \in YearSuffixes) => r = cleanTitle(base)
           /\ \A i \in 1..Len(r) : r[i] \in Alphanumeric \cup {" "}
           /\ \A i \in 1..(Len(r) - 1) : ~(IsSpace(r[i]) /\ IsSpace(r[i + 1]))
           /\ (base = T_GreatEscape /\ suffixes = <<ParenYear>>) => r = T_GreatEscape
           /\ (base = T_Metropolis /\ suffixes = <<BracketYear>>) => r = T_Metropolis
           /\ (base = T_Nosferatu /\ suffixes = <<DashYear>>) => r = T_Nosferatu


----------------------------------------------------------------------------
(* ArchiveService.parseRuntime. Minutes are counted in sixtieths (seconds), *)
(* so that the division by 60 of the code is exact.                         *)

PerMinute == 60

DigitValue(ch) == CHOOSE n \in 0..9 : DigitsOf(n) = <<ch>>

\* Number(s) for a string of digits (Number('') is 0), and parseInt(s, 10).
RECURSIVE ToNumber(_)
ToNumber(s) ==
    IF s = <<>> THEN 0
    ELSE ToNumber(SubSeq(s, 1, Len(s) - 1)) * 10 + DigitValue(s[Len(s)])

\* s.split(':')
RECURSIVE Split(_)
Split(s) ==
    IF \A i \in 1..Len(s) : s[i] # ":" THEN <<s>>
    ELSE LET c == CHOOSE i \in 1..Len(s) :
                      s[i] = ":" /\ \A j \in 1..(i - 1) : s[j] # ":"
         IN <<SubSeq(s, 1, c - 1)>> \o Split(SubSeq(s, c + 1, Len(s)))

\* runtimeStr.match(/(\d+)/): the first run of digits, <<>> when there is none.
FirstDigits(s) ==
    IF \A i \in 1..Len(s) : ~IsDigit(s[i]) THEN <<>>
    ELSE LET a == CHOOSE i \in 1..Len(s) :
                      IsDigit(s[i]) /\ \A j \in 1..(i - 1) : ~IsDigit(s[j])
             b == CHOOSE i \in a..Len(s) :
                      /\ \A j \in a..i : IsDigit(s[j])
                      /\ i = Len(s) \/ ~IsDigit(s[i + 1])
         IN SubSeq(s, a, b)

\* parseRuntime(runtime) for a string whose colon-separated parts are digits,
\* in sixtieths of a minute.
parseRuntime(runtime) ==
    LET parts == Split(runtime)
    IN IF runtime = <<>> THEN 0
       ELSE IF Len(parts) = 3
            THEN (ToNumber(parts[1]) * 60 + ToNumber(parts[2])) * PerMinute
                     + ToNumber(parts[3])
       ELSE IF Len(parts) = 2
            THEN IF ToNumber(parts[1]) < 10
                 THEN ToNumber(parts[1]) * PerMinute + ToNumber(parts[2])
                 ELSE (ToNumber(parts[1]) * 60 + ToNumber(parts[2])) * PerMinute
       ELSE ToNumber(FirstDigits(runtime)) * PerMinute

MaxParts == 3

\* The parts a runtime string is made of, and the unit that may follow a
\* string of one part ("45 min").
RuntimeParts == {<<"0">>, <<"1">>, <<"9">>, <<"1", "0">>, <<"4", "5">>, <<"3", "0">>, <<"3", "2">>}
RuntimeUnits == {<<>>, <<" ", "m", "i", "n">>}

RECURSIVE JoinColon(_)
JoinColon(parts) ==
    IF Len(parts) = 1 THEN parts[1]
    ELSE parts[1] \o <<":">> \o JoinColon(Tail(parts))

InitRuntime ==
    /\ ServiceFresh
    /\ NoCardMounted
    /\ BrowserNotMounted
    /\ timers = {}
    /\ saveLog = <<>>
    /\ fnArgs \in (UNION {[1..n -> RuntimeParts] : n \in 1..MaxParts}) \X RuntimeUnits
    /\ Len(fnArgs[1]) > 1 => fnArgs[2] = <<>>
    /\ fnRet = <<>>

\* archiveService.parseRuntime(movie.runtime)
CallParseRuntime ==
    /\ fnRet = <<>>
    /\ fnRet' = <<parseRuntime(JoinColon(fnArgs[1]) \o fnArgs[2])>>
    /\ UNCHANGED fnArgs

NextRuntime ==
    CallParseRuntime /\ UNCHANGED <<timers, saveLog, svcVars, bootVars, uiVars>>

SpecRuntime == InitRuntime /\ [][NextRuntime]_vars

\* C21: parseRuntime of a three-part 'H:M:S' string is H*60 + M + S/60
\* minutes ('1:32:00' gives 92); of a two-part 'A:B' string it is A*60 + B
\* minutes when A < 10 and A + B/60 minutes otherwise ('45:30' gives 45.5).
C21_ParseRuntime ==
    (fnRet # <<>> /\ fnArgs[2] = <<>>) =>
        LET n == [i \in 1..Len(fnArgs[1]) |-> ToNumber(fnArgs[1][i])]
        IN /\ Len(n) = 3 => fnRet[1] = (n[1] * 60 + n[2]) * PerMinute + n[3]
           /\ fnArgs[1] = <<<<"1">>, <<"3", "2">>, <<"0">>>> => fnRet[1] = 92 * PerMinute
           /\ Len(n) = 2 =>
                 fnRet[1] = IF n[1] < 10
                            THEN (n[1] * 60 + n[2]) * PerMinute
                            ELSE n[1] * PerMinute + n[2]
           /\ fnArgs[1] = <<<<"4", "5">>, <<"3", "0">>>> => fnRet[1] = 45 * PerMinute + 30


----------------------------------------------------------------------------
(* The catalog fetch and its failure *)

MaxRetries == 2

\* err.message of a rejected archiveService.fetchMovies: the response was
\* not ok, or fetch itself rejected.
FetchErrors == {"Archive.org API error: 500", "Failed to fetch"}

\* Mutant: the loading flag is not cleared after a failure.
FetchFailsStillLoading(message) ==
    /\ inflight > 0
    /\ inflight' = inflight - 1
    /\ error' = message
    /\ Commit(<<>>, loading, activeSearch, genreFilter, minRuntime, contentType,
              sortBy, moviesWithoutImages, tmdbRatings, TRUE, cards)
    /\ UNCHANGED <<searchQuery, page, retries, issued>>

\* archiveService.fetchMovies rejects: the catch block of fetchMovies(1, false)
\* runs setError(err.message) and setMovies([]), the finally block
\* setLoading(false).
FetchFails(message) ==
    /\ inflight > 0
    /\ inflight' = inflight - 1
    /\ error' = message
    /\ Commit(<<>>, FALSE, activeSearch, genreFilter, minRuntime, contentType,
              sortBy, moviesWithoutImages, tmdbRatings, TRUE, cards)
    /\ UNCHANGED <<searchQuery, page, retries, issued>>

\* A click on "Try again" in the error banner: fetchMovies is called, which
\* sets loading and clears the error before its first await.
Retry ==
    /\ error # NullStr
    /\ retries < MaxRetries
    /\ inflight < MaxInFlight
    /\ retries' = retries + 1
    /\ inflight' = inflight + 1
    /\ error' = NullStr
    /\ Commit(movies, TRUE, activeSearch, genreFilter, minRuntime, contentType,
              sortBy, moviesWithoutImages, tmdbRatings, FALSE, cards)
    /\ UNCHANGED <<searchQuery, page, issued>>

NextCatalog ==
    \/ \E q \in Queries : SetSearchQuery(q) /\ UNCHANGED <<timers, saveLog, pureVars, svcVars, bootVars, cardVars, error, retries, issued>>
    \/ handleSearch /\ UNCHANGED <<timers, saveLog, pureVars, svcVars, bootVars, cardVars, retries, issued>>
    \/ \E g \in Genres : handleGenreChange(g) /\ UNCHANGED <<timers, saveLog, pureVars, svcVars, bootVars, cardVars, retries, issued>>
    \/ \E s \in Sorts : handleSortChange(s) /\ UNCHANGED <<timers, saveLog, pureVars, svcVars, bootVars, cardVars, retries, issued>>
    \/ \E result \in FetchResults :
          FetchReturns(result) /\ UNCHANGED <<timers, saveLog, pureVars, svcVars, bootVars, cardVars, error, retries, issued>>
    \/ \E message \in FetchErrors :
          FetchFails(message) /\ UNCHANGED <<timers, saveLog, pureVars, svcVars, bootVars, cardVars>>
    \/ Retry /\ UNCHANGED <<timers, saveLog, pureVars, svcVars, bootVars, cardVars>>

SpecCatalog == InitFilter /\ [][NextCatalog]_vars

\* This step is the failure of a catalog fetch: a fetch left flight and the
\* error state took a message.
IsFetchFailure == inflight' < inflight /\ error' \in FetchErrors

\* This step is a user action that calls for a fetch: a submitted search, a
\* genre or sort change, or a click on "Try again".
IsUserFetchAction ==
    \/ activeSearch' # activeSearch
    \/ genreFilter' # genreFilter
    \/ sortBy' # sortBy
    \/ page' # page
    \/ retries' # retries

FetchFailureStep ==
    /\ IsFetchFailure => /\ error' # NullStr
                         /\ ~loading'
                         /\ inflight' = inflight - 1
    /\ inflight' > inflight => IsUserFetchAction
    /\ (error # NullStr /\ ~IsUserFetchAction) => error' # NullStr

\* C22: when a catalog fetch fails, the failure is recorded in the error
\* state and the loading flag is cleared, and no catalog fetch is issued by
\* the failure or after it until a user action (retry, search, genre or sort
\* change) calls for one; the error stays shown until then.
C22_FetchFailureShown == [][FetchFailureStep]_vars

\* A fetch failed, the user retried, and the retry failed too: the error is
\* shown, nothing is loading and no fetch is in flight.
C22_Witness ==
    /\ retries = 1
    /\ error \in FetchErrors
    /\ ~loading
    /\ inflight = 0
    /\ movies = <<>>


----------------------------------------------------------------------------
(* Claims about the keys of the in-memory cache *)

KeysKeptStep ==
    /\ (phase = "up" /\ phase' = "up") => DOMAIN tmdbCache \subseteq DOMAIN tmdbCache'
    /\ (IsModuleInit /\ localStorage.kind = "envelope") =>
          \/ tmdbCache' = EmptyMap
          \/ DOMAIN tmdbCache' = {p[1] : p \in localStorage.data}

\* C23: within a session no step removes a key from the in-memory cache:
\* after setCache calls and saves every key that was cached is still there,
\* possibly overwritten; keys disappear only when the module is loaded and
\* the stored cache is discarded as a whole.
C23_KeysNeverRemoved == [][KeysKeptStep]_vars

\* In a session that started with nothing stored, two keys were cached at
\* different instants, the cache was saved, and both keys are in the cache.
C23_Witness ==
    /\ phase = "up"
    /\ loadedItem = NoItem
    /\ Valid(localStorage, now)
    /\ localStorage.timestamp > StartTime
    /\ timers = {}
    /\ \E k1, k2 \in DOMAIN tmdbCache : tmdbCache[k1].timestamp < tmdbCache[k2].timestamp


----------------------------------------------------------------------------
(* Claims about a card that is unmounted while its lookup is in flight *)

\* The card holds a live callback on request r.
AwaitedByCard(r) ==
    /\ card.mounted
    /\ lookup.call # 0
    /\ ~lookup.cancelled
    /\ calls[lookup.call].req = r

DroppedLookupStep ==
    /\ \A r \in RequestIds :
          (requests[r].pc # "done" /\ requests'[r].pc = "done") =>
              /\ tmdbCache'[requests[r].key] =
                    [data |-> requests'[r].result, timestamp |-> now]
              /\ ~AwaitedByCard(r) =>
                    /\ UNCHANGED <<imageReports, dataReports>>
                    /\ queued' = queued
                    /\ card' = card
    /\ (~card.mounted /\ ~card'.mounted) => UNCHANGED <<imageReports, dataReports>>

\* C24: when a card is unmounted before its lookup resolves, the lookup
\* still settles and writes its outcome to the shared cache, and the card
\* calls neither onImageStatus nor onTmdbData with the dropped result (and
\* sets no state from it).
C24_DroppedResultNotReported == [][DroppedLookupStep]_vars

\* The card started a lookup and was unmounted; the lookup then settled with
\* a match that is now in the cache, and the card has reported nothing.
C24_Witness ==
    /\ ~card.mounted
    /\ mounts = 1
    /\ Len(calls) = 1 /\ calls[1].owner /\ calls[1].returned
    /\ calls[1].result # NullData
    /\ getFromCache(calls[1].title, calls[1].year) = Found(calls[1].result)
    /\ imageReports = <<>>
    /\ dataReports = <<>>
    /\ queued = EmptyMap


----------------------------------------------------------------------------
(* Lookups under fair scheduling: every armed timer fires, the clock       *)
(* advances, and every issued network request settles                      *)

\* The instants the clock can take: the start, one cache lifetime later, and
\* every armed throttle timer's due time.
LiveInstants ==
    {StartTime, StartTime + CACHE_DURATION} \cup {requests[r].due : r \in RequestIds}

LiveMovies == {<<T_Al, NoYear>>, <<T_B, 1963>>}

LiveResponses ==
    {[kind |-> "throw", results |-> <<>>], [kind |-> "ok", results |-> <<CandAl>>]}

\* The page has loaded with nothing in storage and the key is set.
InitLive ==
    /\ Init
    /\ enabled
    /\ tmdbCache = EmptyMap

SearchMovieLive == SearchMovie(LiveMovies, MaxCalls) /\ UNCHANGED <<timers, saveLog, pureVars, bootVars, uiVars>>
ThrottleWakeLive == ThrottleWake /\ UNCHANGED <<timers, saveLog, pureVars, bootVars, uiVars>>
LookupSettlesLive == LookupSettles(LiveResponses) /\ UNCHANGED <<saveLog, pureVars, bootVars, uiVars>>
TickLive == Tick(LiveInstants) /\ UNCHANGED <<timers, saveLog, pureVars, bootVars, uiVars>>

NextLive ==
    \/ SearchMovieLive
    \/ ThrottleWakeLive
    \/ LookupSettlesLive
    \/ TickLive

\* setTimeout callbacks run once due (ThrottleWake) and time passes (Tick).
\* Nothing obliges the network to answer.
SpecLive ==
    /\ InitLive
    /\ [][NextLive]_vars
    /\ WF_vars(ThrottleWakeLive)
    /\ WF_vars(TickLive)

\* A request that has not settled holds its key in pendingRequests.
PendingHeld ==
    \A r \in RequestIds :
        requests[r].pc # "done" =>
            /\ requests[r].key \in DOMAIN pendingRequests
            /\ pendingRequests[requests[r].key] = r

\* A call made for a key whose request has not settled awaits that request
\* and issues nothing.
LaterCallerJoinsStep ==
    Len(calls') = Len(calls) + 1 =>
        LET c == calls'[Len(calls')]
        IN InFlightFor(c.key) # 0 =>
              /\ c.req = InFlightFor(c.key)
              /\ ~c.owner
              /\ ~c.returned
              /\ requests' = requests
              /\ fetches' = fetches

\* Every network request that was issued gets its answer.
EveryFetchSettles ==
    \A r \in 1..MaxCalls :
        [](r \in RequestIds /\ requests[r].pc = "fetch"
              => <>(r \in RequestIds /\ requests[r].pc = "done"))

EveryCallReturns ==
    \A c \in 1..MaxCalls : [](c \in CallIds => <>(c \in CallIds /\ calls[c].returned))

\* C25: a lookup has no timeout: until a key's request settles the key stays
\* in pendingRequests and every later call for it awaits that request
\* without issuing another; when every network request settles, every
\* searchMovie call eventually returns and pendingRequests becomes empty
\* again.
C25_NoTimeoutButTerminates ==
    /\ []PendingHeld
    /\ [][LaterCallerJoinsStep]_vars
    /\ EveryFetchSettles => (EveryCallReturns /\ []<>(pendingRequests = EmptyMap))

\* A fetch issued a whole cache lifetime ago is still outstanding: its key
\* is pending, and a second call for the key has joined it.
C25_Witness ==
    /\ Len(requests) = 1
    /\ requests[1].pc = "fetch"
    /\ now - requests[1].createdAt >= CACHE_DURATION
    /\ pendingRequests[requests[1].key] = 1
    /\ Len(calls) = 2
    /\ calls[2].req = 1 /\ ~calls[2].owner /\ ~calls[2].returned
    /\ calls[2].at > calls[1].at
    /\ Len(fetches) = 1


----------------------------------------------------------------------------
(* Claims about items whose lookup is outstanding *)

\* Nothing is known about the poster of m: it was not reported as lacking an
\* image and the cache has no entry under its key.
StatusUnknown(m) ==
    /\ m.identifier \notin moviesWithoutImages
    /\ getCacheKey(m.title, m.year) \notin DOMAIN tmdbCache

\* C26: the display list is computed from the current state: a loaded item
\* that passes the runtime and genre filters and whose poster status is
\* unknown (not in moviesWithoutImages, no cache entry for its key) is in
\* the display list, and has its card in the grid once loading is over.
C26_UnknownStatusDisplayed ==
    \A m \in Range(movies) :
        (PassesFilters(m) /\ StatusUnknown(m)) =>
            /\ m \in Range(displayedMovies)
            /\ ~loading => m.identifier \in DOMAIN cards

\* With a key and no search, the card of an item is in the grid while its
\* lookup is in flight and nothing is known about its poster.
C26_Witness ==
    /\ enabled
    /\ activeSearch = <<>>
    /\ ~loading
    /\ \E m \in Range(movies) :
          /\ StatusUnknown(m)
          /\ m \in Range(displayedMovies)
          /\ m.identifier \in DOMAIN cards
          /\ cards[m.identifier].call # 0
          /\ ~calls[cards[m.identifier].call].returned
          /\ requests[calls[cards[m.identifier].call].req].pc = "fetch"


----------------------------------------------------------------------------
(* Claims about the order of the display list *)

\* The runtime-filtered list narrowed to the selected genre, in the order
\* of the loaded list.
GenreFiltered ==
    SelectSeq(filteredByRuntime,
              LAMBDA m : genreFilter = "all" \/ genreFilter \in Range(m.genres))

\* The rating an item sorts by: its entry in tmdbRatings, 0 without one.
SortRating(m) ==
    IF m.identifier \in DOMAIN tmdbRatings THEN tmdbRatings[m.identifier] ELSE 0

IsPermutation(s, t) ==
    /\ Len(s) = Len(t)
    /\ \E f \in [1..Len(s) -> 1..Len(s)] :
          /\ \A i, j \in 1..Len(s) : i # j => f[i] # f[j]
          /\ \A i \in 1..Len(s) : s[i] = t[f[i]]

\* s is t with some elements left out.
RECURSIVE IsSubsequence(_, _)
IsSubsequence(s, t) ==
    IF s = <<>> THEN TRUE
    ELSE IF t = <<>> THEN FALSE
    ELSE IF Head(s) = Head(t) THEN IsSubsequence(Tail(s), Tail(t))
    ELSE IsSubsequence(s, Tail(t))

\* C27: sorted by 'tmdb_rating', the display list is a permutation of the
\* filtered list in order of non-increasing rating from tmdbRatings, an item
\* without a rating counting as 0; with any other sort key the display list
\* is the filtered list in the order in which the archive delivered it.
C27_RatingSort ==
    IF sortBy = "tmdb_rating"
    THEN /\ IsPermutation(displayedMovies, GenreFiltered)
         /\ \A i, j \in 1..Len(displayedMovies) :
               i < j => SortRating(displayedMovies[i]) >= SortRating(displayedMovies[j])
    ELSE /\ displayedMovies = GenreFiltered
         /\ IsSubsequence(displayedMovies, movies)

\* Sorted by rating, a rated item is shown above an unrated one that the
\* archive delivered before it.
C27_Witness ==
    /\ sortBy = "tmdb_rating"
    /\ Len(displayedMovies) = 2
    /\ displayedMovies # GenreFiltered
    /\ SortRating(displayedMovies[1]) > 0
    /\ SortRating(displayedMovies[2]) = 0
    /\ displayedMovies[2].identifier \notin DOMAIN tmdbRatings


----------------------------------------------------------------------------
(* Claims about what every displayed item satisfies *)

----------------------------------------------------------------------------
(* ArchiveService.normalizeGenre, extractGenres and the genres of an item *)

G_Action == <<"A", "c", "t", "i", "o", "n">>
G_Adventure == <<"A", "d", "v", "e", "n", "t", "u", "r", "e">>
G_Animation == <<"A", "n", "i", "m", "a", "t", "i", "o", "n">>
G_Comedy == <<"C", "o", "m", "e", "d", "y">>
G_Crime == <<"C", "r", "i", "m", "e">>
G_Documentary == <<"D", "o", "c", "u", "m", "e", "n", "t", "a", "r", "y">>
G_Drama == <<"D", "r", "a", "m", "a">>
G_Family == <<"F", "a", "m", "i", "l", "y">>
G_Fantasy == <<"F", "a", "n", "t", "a", "s", "y">>
G_FilmNoir == <<"F", "i", "l", "m", " ", "N", "o", "i", "r">>
G_History == <<"H", "i", "s", "t", "o", "r", "y">>
G_Horror == <<"H", "o", "r", "r", "o", "r">>
G_Music == <<"M", "u", "s", "i", "c">>
G_Musical == <<"M", "u", "s", "i", "c", "a", "l">>
G_Mystery == <<"M", "y", "s", "t", "e", "r", "y">>
G_Romance == <<"R", "o", "m", "a", "n", "c", "e">>
G_SciFi == <<"S", "c", "i", "-", "F", "i">>
G_Short == <<"S", "h", "o", "r", "t">>
G_Sport == <<"S", "p", "o", "r", "t">>
G_Thriller == <<"T", "h", "r", "i", "l", "l", "e", "r">>
G_War == <<"W", "a", "r">>
G_Western == <<"W", "e", "s", "t", "e", "r", "n">>

\* STANDARD_GENRES, in the order of the source (which is sorted).
STANDARD_GENRES ==
    <<G_Action, G_Adventure, G_Animation, G_Comedy, G_Crime, G_Documentary,
      G_Drama, G_Family, G_Fantasy, G_FilmNoir, G_History, G_Horror,
      G_Music, G_Musical, G_Mystery, G_Romance, G_SciFi, G_Short,
      G_Sport, G_Thriller, G_War, G_Western>>

\* The value of a key that GENRE_ALIASES maps to null.
NotAGenre == <<>>

\* The own properties of GENRE_ALIASES: <<key, value>>.
AliasEntries ==
    { <<<<"s", "c", "i", "e", "n", "c", "e", " ", "f", "i", "c", "t", "i", "o", "n">>, G_SciFi>>,
      <<<<"s", "c", "i", "f", "i">>, G_SciFi>>,
      <<<<"s", "f">>, G_SciFi>>,
      <<<<"s", "c", "i", " ", "f", "i">>, G_SciFi>>,
      <<<<"n", "o", "i", "r">>, G_FilmNoir>>,
      <<<<"b", "l", "a", "c", "k", " ", "a", "n", "d", " ", "w", "h", "i", "t", "e">>, NotAGenre>>,
      <<<<"b", "&", "w">>, NotAGenre>>,
      <<<<"s", "i", "l", "e", "n", "t">>, NotAGenre>>,
      <<<<"s", "i", "l", "e", "n", "t", " ", "f", "i", "l", "m">>, NotAGenre>>,
      <<<<"p", "u", "b", "l", "i", "c", " ", "d", "o", "m", "a", "i", "n">>, NotAGenre>>,
      <<<<"f", "e", "a", "t", "u", "r", "e">>, NotAGenre>>,
      <<<<"f", "e", "a", "t", "u", "r", "e", " ", "f", "i", "l", "m">>, NotAGenre>>,
      <<<<"f", "e", "a", "t", "u", "r", "e", " ", "f", "i", "l", "m", "s">>, NotAGenre>>,
      <<<<"m", "o", "v", "i", "e", "s">>, NotAGenre>>,
      <<<<"m", "o", "v", "i", "e">>, NotAGenre>>,
      <<<<"f", "i", "l", "m">>, NotAGenre>>,
      <<<<"c", "l", "a", "s", "s", "i", "c">>, NotAGenre>>,
      <<<<"c", "l", "a", "s", "s", "i", "c", "s">>, NotAGenre>>,
      <<<<"v", "i", "n", "t", "a", "g", "e">>, NotAGenre>>,
      <<<<"o", "l", "d", " ", "m", "o", "v", "i", "e", "s">>, NotAGenre>>,
      <<<<"r", "o", "m", "a", "n", "t", "i", "c", " ", "c", "o", "m", "e", "d", "y">>, G_Romance>>,
      <<<<"r", "o", "m", "-", "c", "o", "m">>, G_Romance>>,
      <<<<"r", "o", "m", "c", "o", "m">>, G_Romance>>,
      <<<<"a", "c", "t", "i", "o", "n", " ", "a", "d", "v", "e", "n", "t", "u", "r", "e">>, G_Action>>,
      <<<<"a", "c", "t", "i", "o", "n", "/", "a", "d", "v", "e", "n", "t", "u", "r", "e">>, G_Action>>,
      <<<<"s", "u", "s", "p", "e", "n", "s", "e">>, G_Thriller>>,
      <<<<"p", "s", "y", "c", "h", "o", "l", "o", "g", "i", "c", "a", "l", " ", "t", "h", "r", "i", "l", "l", "e", "r">>, G_Thriller>>,
      <<<<"h", "i", "s", "t", "o", "r", "i", "c", "a", "l">>, G_History>>,
      <<<<"h", "i", "s", "t", "o", "r", "i", "c", "a", "l", " ", "d", "r", "a", "m", "a">>, G_History>>,
      <<<<"b", "i", "o", "g", "r", "a", "p", "h", "i", "c", "a", "l">>, G_History>>,
      <<<<"b", "i", "o", "g", "r", "a", "p", "h", "y">>, G_History>>,
      <<<<"b", "i", "o", "p", "i", "c">>, G_History>>,
      <<<<"w", "a", "r", " ", "f", "i", "l", "m">>, G_War>>,
      <<<<"w", "o", "r", "l", "d", " ", "w", "a", "r">>, G_War>>,
      <<<<"w", "w", "i", "i">>, G_War>>,
      <<<<"w", "w", "2">>, G_War>>,
      <<<<"c", "a", "r", "t", "o", "o", "n">>, G_Animation>>,
      <<<<"a", "n", "i", "m", "a", "t", "e", "d">>, G_Animation>>,
      <<<<"c", "h", "i", "l", "d", "r", "e", "n", "s">>, G_Family>>,
      <<<<"c", "h", "i", "l", "d", "r", "e", "n", "'", "s">>, G_Family>>,
      <<<<"k", "i", "d", "s">>, G_Family>>,
      <<<<"m", "u", "s", "i", "c", "a", "l", " ", "c", "o", "m", "e", "d", "y">>, G_Musical>>,
      <<<<"d", "r", "a", "m", "a", "/", "r", "o", "m", "a", "n", "c", "e">>, G_Drama>>,
      <<<<"c", "r", "i", "m", "e", " ", "d", "r", "a", "m", "a">>, G_Crime>>,
      <<<<"d", "e", "t", "e", "c", "t", "i", "v", "e">>, G_Crime>>,
      <<<<"g", "a", "n", "g", "s", "t", "e", "r">>, G_Crime>>,
      <<<<"h", "o", "r", "r", "o", "r", "/", "t", "h", "r", "i", "l", "l", "e", "r">>, G_Horror>>,
      <<<<"s", "c", "a", "r", "y">>, G_Horror>>,
      <<<<"m", "o", "n", "s", "t", "e", "r">>, G_Horror>>,
      <<<<"s", "p", "o", "r", "t", "s">>, G_Sport>>,
      <<<<"s", "p", "o", "r", "t", "s", " ", "d", "r", "a", "m", "a">>, G_Sport>> }

\* Object.prototype's properties whose names are all lower case: the `in`
\* operator finds them on GENRE_ALIASES through the prototype chain. The
\* values are the function Object and the object Object.prototype.
ObjectFunction == <<"function Object() { [native code] }">>
ObjectPrototype == <<"[object Object]">>
InheritedEntries ==
    { <<<<"c", "o", "n", "s", "t", "r", "u", "c", "t", "o", "r">>, ObjectFunction>>,
      <<<<"_", "_", "p", "r", "o", "t", "o", "_", "_">>, ObjectPrototype>> }

\* GENRE_ALIASES as `key in GENRE_ALIASES` and GENRE_ALIASES[key] see it.
GENRE_ALIASES == AliasEntries \cup InheritedEntries

\* normalizeGenre(genre): a standard genre, an inherited value, or NotAGenre
\* for null.
normalizeGenre(genre) ==
    LET lowerGenre == trim(toLowerCase(genre))
        aliased == {a \in GENRE_ALIASES : a[1] = lowerGenre}
        equal == {i \in 1..Len(STANDARD_GENRES) :
                     toLowerCase(STANDARD_GENRES[i]) = lowerGenre}
        contained == {i \in 1..Len(STANDARD_GENRES) :
                         includes(lowerGenre, toLowerCase(STANDARD_GENRES[i]))}
    IN IF genre = <<>> THEN NotAGenre
       ELSE IF aliased # {} THEN (CHOOSE a \in aliased : TRUE)[2]
       ELSE IF equal # {} THEN STANDARD_GENRES[CHOOSE i \in equal : \A j \in equal : i <= j]
       ELSE IF contained # {}
            THEN STANDARD_GENRES[CHOOSE i \in contained : \A j \in contained : i <= j]
       ELSE NotAGenre

GenreDelimiters == {";", ",", "/"}

\* s.split(/[;,\/]/)
RECURSIVE SplitGenres(_)
SplitGenres(s) ==
    IF \A i \in 1..Len(s) : s[i] \notin GenreDelimiters THEN <<s>>
    ELSE LET c == CHOOSE i \in 1..Len(s) :
                      s[i] \in GenreDelimiters
                      /\ \A j \in 1..(i - 1) : s[j] \notin GenreDelimiters
         IN <<SubSeq(s, 1, c - 1)>> \o SplitGenres(SubSeq(s, c + 1, Len(s)))

\* The place of a value in Array.prototype.sort's order (by string
\* conversion, in code units): the standard genres start with a capital and
\* are listed in that order; '[object Object]' and 'function Object...'
\* come after every capital.
SortRank(g) ==
    IF g = ObjectPrototype THEN Len(STANDARD_GENRES) + 1
    ELSE IF g = ObjectFunction THEN Len(STANDARD_GENRES) + 2
    ELSE CHOOSE i \in 1..Len(STANDARD_GENRES) : STANDARD_GENRES[i] = g

\* Array.from(set).sort()
RECURSIVE SortedFromSet(_)
SortedFromSet(set) ==
    IF set = {} THEN <<>>
    ELSE LET first == CHOOSE g \in set : \A h \in set : SortRank(g) <= SortRank(h)
         IN <<first>> \o SortedFromSet(set \ {first})

\* A subject field of an archive.org document: absent, one string, or an
\* array of strings.
NoSubject == [kind |-> "none", value |-> <<>>]
SubjectString(s) == [kind |-> "string", value |-> <<s>>]
SubjectArray(ss) == [kind |-> "array", value |-> ss]

\* extractGenres(subject)
extractGenres(subject) ==
    IF subject.kind = "none" \/ (subject.kind = "string" /\ subject.value[1] = <<>>)
    THEN <<>>
    ELSE LET subjects == subject.value
             parts == UNION {Range(SplitGenres(subjects[i])) : i \in 1..Len(subjects)}
             genres == {normalizeGenre(trim(part)) : part \in parts} \ {NotAGenre}
         IN SortedFromSet(genres)

Uncategorized == <<"U", "n", "c", "a", "t", "e", "g", "o", "r", "i", "z", "e", "d">>

\* fetchMovies, item mapping: genres.length > 0 ? genres : ['Uncategorized']
ItemGenres(subject) ==
    IF Len(extractGenres(subject)) > 0 THEN extractGenres(subject)
    ELSE <<Uncategorized>>

MaxSubjects == 2   \* strings in a subject array

S_Horror == <<"H", "o", "r", "r", "o", "r">>
S_horrorComedy == <<"h", "o", "r", "r", "o", "r", ";", " ", "C", "o", "m", "e", "d", "y">>
S_SciFiHorror == <<"S", "c", "i", "-", "F", "i", "/", "H", "o", "r", "r", "o", "r">>
S_scienceFiction == <<"s", "c", "i", "e", "n", "c", "e", " ", "f", "i", "c", "t", "i", "o", "n">>
S_Silent == <<"S", "i", "l", "e", "n", "t">>
S_Musicals == <<"M", "u", "s", "i", "c", "a", "l", "s">>
S_dramaDrama == <<"D", "r", "a", "m", "a", ",", " ", "d", "r", "a", "m", "a", " ">>
S_Constructor == <<"C", "o", "n", "s", "t", "r", "u", "c", "t", "o", "r">>
S_1950 == <<"1", "9", "5", "0">>
S_Empty == <<>>
S_FeatureFilms == <<"F", "e", "a", "t", "u", "r", "e", " ", "F", "i", "l", "m", "s">>

SubjectStrings ==
    {S_Horror, S_horrorComedy, S_SciFiHorror, S_scienceFiction, S_Silent, S_Musicals,
     S_dramaDrama, S_Constructor, S_1950, S_Empty, S_FeatureFilms}

Subjects ==
    {NoSubject}
    \cup {SubjectString(s) : s \in SubjectStrings}
    \cup {SubjectArray(ss) : ss \in UNION {[1..n -> SubjectStrings] : n \in 0..MaxSubjects}}

InitGenres ==
    /\ ServiceFresh
    /\ NoCardMounted
    /\ BrowserNotMounted
    /\ timers = {}
    /\ saveLog = <<>>
    /\ fnArgs \in {<<subject>> : subject \in Subjects}
    /\ fnRet = <<>>

\* fetchMovies maps one document to an item.
MapDocument ==
    /\ fnRet = <<>>
    /\ fnRet' = <<ItemGenres(fnArgs[1])>>
    /\ UNCHANGED <<fnArgs, svcVars, bootVars, uiVars, timers, saveLog>>

NextGenres == MapDocument

SpecGenres == InitGenres /\ [][NextGenres]_vars

\* C29: every item that fetchMovies produces has a non-empty genre list:
\* one or more standard genres, each a member of STANDARD_GENRES and none
\* twice, or the single sentinel 'Uncategorized'.
C29_GenresWellFormed ==
    fnRet # <<>> =>
        LET genres == fnRet[1]
        IN /\ Len(genres) > 0
           /\ \/ genres = <<Uncategorized>>
              \/ /\ \A i \in 1..Len(genres) : genres[i] \in Range(STANDARD_GENRES)
                 /\ \A i, j \in 1..Len(genres) : i # j => genres[i] # genres[j]


----------------------------------------------------------------------------
(* Claims about hasCachedPoster against getFromCache *)

\* C30: hasCachedPoster and getFromCache agree on every key at every time:
\* hasCachedPoster gives null exactly when getFromCache does not find the
\* key (never looked up, or expired), true exactly when the record found
\* has a poster, and false exactly when the key is found without a poster
\* (a cached no-match, or a match without a poster).
C30_PosterStatusAgrees ==
    \A m \in Movies :
        LET status == hasCachedPoster(tmdbCache, m[1], m[2])
            cached == getFromCache(m[1], m[2])
        IN /\ status = "null" <=> ~cached.found
           /\ status = "true" <=> (cached.found /\ HasPoster(cached.data))
           /\ status = "false" <=> (cached.found /\ ~HasPoster(cached.data))


----------------------------------------------------------------------------
(* The card under fair scheduling: React runs the passive effects of a     *)
(* commit and renders queued updates; image events and unmounts may or may *)
(* not happen                                                              *)

CardEffectsRun == CardEffects /\ UNCHANGED <<timers, saveLog, pureVars, bootVars, browserVars>>
CardRenders == CardRender /\ UNCHANGED <<timers, saveLog, pureVars, svcVars, bootVars, browserVars>>

SpecCardFair ==
    /\ Init
    /\ [][NextCard]_vars
    /\ WF_vars(CardEffectsRun)
    /\ WF_vars(CardRenders)

\* The card has committed the outcome of its lookup, a record with a rating.
ResolvedWithRating ==
    /\ card.mounted
    /\ tmdbEnabled
    /\ card.tmdbChecked
    /\ card.tmdbData # NullData
    /\ card.tmdbData.voteAverage # 0

\* onTmdbData was invoked with the card's record; handleTmdbData then puts
\* its rating in tmdbRatings.
RatingReported ==
    \E i \in 1..Len(dataReports) :
        /\ dataReports[i] = card.tmdbData
        /\ handleTmdbData(EmptyMap, card.movie.identifier, dataReports[i])
              = (card.movie.identifier :> card.tmdbData.voteAverage)

\* C31: a card that stays mounted with enrichment enabled and whose lookup
\* resolved to a record with a rating eventually invokes onTmdbData with
\* that record, in whatever order the lookup and the image events happen.
C31_RatingEventuallyReported ==
    [](ResolvedWithRating => <>(~card.mounted \/ RatingReported))


----------------------------------------------------------------------------
(* Claims about the poster a card renders *)

\* C33: once the lookup of a card has resolved with a poster reference, the
\* card renders the TMDB poster image, also when the archive thumbnail
\* failed to load before the lookup resolved.
C33_PosterShownOnceResolved ==
    (card.mounted /\ card.tmdbChecked /\ HasPoster(card.tmdbData)) => img.src = "poster"


----------------------------------------------------------------------------
(* ArchiveMovieBrowser with every fetchMovies call followed from its start *)
(* to its settlement: overlapping fetches, "Load more", failures           *)

MaxIssued == 3   \* fetchMovies calls per behaviour of SpecPaging
MaxPage == 2     \* the highest page "Load more" reaches in SpecPaging

ItemC ==
    [identifier |-> "c", title |-> T_c, year |-> NoYear,
     runtimeMinutes |-> 80, genres |-> <<"Horror">>]

\* What archiveService.fetchMovies resolves to for a request: the second
\* page repeats an item of the first and brings a new one.
ArchivePage(search, genre, pageNum) ==
    IF search # <<>> THEN (IF pageNum = FIRST_PAGE THEN <<ItemAl>> ELSE <<>>)
    ELSE IF genre = "Horror"
         THEN (IF pageNum = FIRST_PAGE THEN <<ItemAl>> ELSE <<ItemAl, ItemC>>)
    ELSE (IF pageNum = FIRST_PAGE THEN <<ItemAl, ItemB>> ELSE <<ItemB, ItemC>>)

\* fetchMovies(pageNum, shouldAppend) up to its await: the call with the
\* activeSearch, genreFilter and sortBy of its closure, and the earlier calls
\* that had not settled when it was made.
NewFetch(pageNum, shouldAppend, search, genre, sort) ==
    [pageNum |-> pageNum, append |-> shouldAppend, search |-> search,
     genre |-> genre, sort |-> sort, state |-> "inflight", result |-> <<>>,
     openAtCall |-> {i \in 1..Len(issued) : issued[i].state = "inflight"}]

\* Mutant: the page is appended whole.
AppendPageWhole(prev, new) == prev \o new

\* setMovies(prev => [...prev, ...newMovies]) with newMovies the items whose
\* identifier prev does not have
AppendPage(prev, new) ==
    LET existingIds == {prev[i].identifier : i \in 1..Len(prev)}
    IN prev \o SelectSeq(new, LAMBDA m : m.identifier \notin existingIds)

\* The mount effects of the browser: fetchMovies(1, false).
BrowserMounts ==
    /\ issued = <<>>
    /\ issued' = <<NewFetch(FIRST_PAGE, FALSE, activeSearch, genreFilter, sortBy)>>
    /\ inflight' = inflight + 1
    /\ error' = NullStr
    /\ Commit(movies, TRUE, activeSearch, genreFilter, minRuntime, contentType,
              sortBy, moviesWithoutImages, tmdbRatings, FALSE, cards)
    /\ UNCHANGED <<searchQuery, page, retries>>

\* A handler has set search2, genre2, sort2 and page 1 and emptied
\* moviesWithoutImages; the page-1 fetch effect runs when fetchMovies or the
\* page changed.
ResetAndFetch(search2, genre2, sort2) ==
    LET refetch == \/ search2 # activeSearch \/ genre2 # genreFilter
                   \/ sort2 # sortBy \/ page # FIRST_PAGE
    IN /\ issued # <<>>
       /\ refetch => Len(issued) < MaxIssued
       /\ issued' = IF refetch
                    THEN Append(issued, NewFetch(FIRST_PAGE, FALSE, search2, genre2, sort2))
                    ELSE issued
       /\ inflight' = IF refetch THEN inflight + 1 ELSE inflight
       /\ error' = IF refetch THEN NullStr ELSE error
       /\ page' = FIRST_PAGE
       /\ Commit(movies, loading \/ refetch, search2, genre2, minRuntime,
                 contentType, sort2, {}, tmdbRatings, TRUE, cards)
       /\ UNCHANGED <<searchQuery, retries>>

\* handleSearch, handleGenreChange and handleSortChange, with the fetch each
\* starts.
SubmitSearch == ResetAndFetch(searchQuery, "all", sortBy)
ChangeGenre(genre) == ResetAndFetch(activeSearch, genre, sortBy)
ChangeSort(newSort) == ResetAndFetch(activeSearch, genreFilter, newSort)

\* "Load more": setPage(p => p + 1); the pagination effect calls
\* fetchMovies(page, true).
LoadMore ==
    /\ issued # <<>>
    /\ page < MaxPage
    /\ Len(issued) < MaxIssued
    /\ page' = page + 1
    /\ issued' = Append(issued, NewFetch(page + 1, TRUE, activeSearch, genreFilter, sortBy))
    /\ inflight' = inflight + 1
    /\ error' = NullStr
    /\ Commit(movies, TRUE, activeSearch, genreFilter, minRuntime, contentType,
              sortBy, moviesWithoutImages, tmdbRatings, FALSE, cards)
    /\ UNCHANGED <<searchQuery, retries>>

\* archiveService.fetchMovies resolves for call i: setMovies (appending for
\* a later page), then setLoading(false) in the finally block.
CatalogResolves(i) ==
    LET f == issued[i]
        result == ArchivePage(f.search, f.genre, f.pageNum)
        movies2 == IF f.append /\ f.pageNum > 1 THEN AppendPage(movies, result)
                   ELSE result
    IN /\ f.state = "inflight"
       /\ issued' = [issued EXCEPT ![i].state = "ok", ![i].result = result]
       /\ inflight' = inflight - 1
       /\ Commit(movies2, FALSE, activeSearch, genreFilter, minRuntime, contentType,
                 sortBy, moviesWithoutImages, tmdbRatings, TRUE, cards)
       /\ UNCHANGED <<searchQuery, page, error, retries>>

\* archiveService.fetchMovies rejects for call i: setError, setMovies([])
\* unless appending, then setLoading(false).
CatalogRejects(i, message) ==
    LET f == issued[i]
    IN /\ f.state = "inflight"
       /\ issued' = [issued EXCEPT ![i].state = "failed"]
       /\ inflight' = inflight - 1
       /\ error' = message
       /\ Commit(IF f.append THEN movies ELSE <<>>, FALSE, activeSearch, genreFilter,
                 minRuntime, contentType, sortBy, moviesWithoutImages, tmdbRatings,
                 TRUE, cards)
       /\ UNCHANGED <<searchQuery, page, retries>>

\* A card of the grid calls onImageStatus(hasImage): handleImageStatus.
ImageStatusReported(id, hasImage) ==
    /\ id \in DOMAIN cards
    /\ Commit(movies, loading, activeSearch, genreFilter, minRuntime, contentType,
              sortBy, handleImageStatus(moviesWithoutImages, id, hasImage),
              tmdbRatings, ~hasImage, cards)
    /\ UNCHANGED <<inflight, searchQuery, page, error, retries, issued>>

\* The browser has rendered once; its effects have not run.
InitPaging ==
    /\ ServiceStarted
    /\ NothingElse
    /\ NoCardMounted
    /\ BrowserNotMounted

NextPaging ==
    \/ BrowserMounts /\ UNCHANGED <<timers, saveLog, pureVars, svcVars, bootVars, cardVars>>
    \/ \E q \in Queries : SetSearchQuery(q) /\ issued # <<>> /\ UNCHANGED <<timers, saveLog, pureVars, svcVars, bootVars, cardVars, error, retries, issued>>
    \/ SubmitSearch /\ UNCHANGED <<timers, saveLog, pureVars, svcVars, bootVars, cardVars>>
    \/ \E g \in Genres : ChangeGenre(g) /\ UNCHANGED <<timers, saveLog, pureVars, svcVars, bootVars, cardVars>>
    \/ \E s \in Sorts : ChangeSort(s) /\ UNCHANGED <<timers, saveLog, pureVars, svcVars, bootVars, cardVars>>
    \/ LoadMore /\ UNCHANGED <<timers, saveLog, pureVars, svcVars, bootVars, cardVars>>
    \/ \E i \in 1..Len(issued) : CatalogResolves(i) /\ UNCHANGED <<timers, saveLog, pureVars, svcVars, bootVars, cardVars>>
    \/ \E i \in 1..Len(issued), message \in FetchErrors :
          CatalogRejects(i, message) /\ UNCHANGED <<timers, saveLog, pureVars, svcVars, bootVars, cardVars>>
    \/ \E id \in DOMAIN cards, hasImage \in BOOLEAN :
          ImageStatusReported(id, hasImage) /\ UNCHANGED <<timers, saveLog, pureVars, svcVars, bootVars, cardVars>>

SpecPaging == InitPaging /\ [][NextPaging]_vars


----------------------------------------------------------------------------
(* Claims about overlapping catalog fetches *)

NoneInFlight == \A i \in 1..Len(issued) : issued[i].state # "inflight"

\* C32: when a fetch was started while an earlier one was in flight, then
\* once all have settled, in whichever order, the movie list holds the
\* result of the fetch issued last.
C32_LatestFetchWins ==
    (issued # <<>> /\ NoneInFlight) =>
        LET last == issued[Len(issued)]
        IN (last.openAtCall # {} /\ last.state = "ok" /\ ~last.append)
               => movies = last.result

\* C36: loading is true in every state in which a catalog fetch is in
\* flight, also when fetches overlap and one of them has settled.
C36_LoadingWhileInFlight ==
    (\E i \in 1..Len(issued) : issued[i].state = "inflight") => loading


----------------------------------------------------------------------------
(* Claims about the known-missing set and about appended pages *)

Identifiers(ms) == {ms[i].identifier : i \in 1..Len(ms)}

\* handleImageStatus on the current set: a report without an image adds
\* exactly the identifier, a report with an image changes nothing.
ImageStatusLaw ==
    \A id \in {"al", "b", "c"} :
        /\ handleImageStatus(moviesWithoutImages, id, FALSE) = moviesWithoutImages \cup {id}
        /\ handleImageStatus(moviesWithoutImages, id, TRUE) = moviesWithoutImages

\* A step either keeps every identifier of the set and adds at most one, or
\* empties the set; the steps that empty it are not settlements of a fetch
\* and leave the page at 1.
KnownMissingStep ==
    \/ /\ moviesWithoutImages \subseteq moviesWithoutImages'
       /\ Cardinality(moviesWithoutImages' \ moviesWithoutImages) <= 1
    \/ /\ moviesWithoutImages' = {}
       /\ page' = FIRST_PAGE
       /\ movies' = movies
       /\ \A i \in 1..Len(issued) : issued'[i] = issued[i]

\* C34: between resets moviesWithoutImages only grows: handleImageStatus(id,
\* false) adds exactly id, handleImageStatus(id, true) changes nothing, and
\* the set is emptied only by a search submit, a genre change or a sort
\* change, each of which also sets the page to 1.
C34_KnownMissingOnlyGrows == []ImageStatusLaw /\ [][KnownMissingStep]_vars

\* After "Load more" a handler went back to page 1 and emptied the set, and
\* a card has since been reported as lacking an image.
C34_Witness ==
    /\ Len(issued) = 3
    /\ issued[2].append
    /\ ~issued[3].append
    /\ page = FIRST_PAGE
    /\ Cardinality(moviesWithoutImages) = 1

\* Call i, an appending fetch, settles in this step.
AppendSettles(i) ==
    /\ issued[i].state = "inflight"
    /\ issued'[i].state # "inflight"
    /\ issued[i].append
    /\ issued[i].pageNum > 1

AppendStep ==
    \A i \in 1..Len(issued) :
        AppendSettles(i) =>
            IF issued'[i].state = "ok"
            THEN /\ Len(movies') >= Len(movies)
                 /\ SubSeq(movies', 1, Len(movies)) = movies
                 /\ \A j \in (Len(movies) + 1)..Len(movies') :
                       /\ movies'[j].identifier \notin Identifiers(movies)
                       /\ movies'[j] \in Range(issued'[i].result)
                 /\ Identifiers(issued'[i].result) \subseteq Identifiers(movies')
            ELSE movies' = movies

\* C35: when the result of a page greater than 1 is appended, the items
\* already in the list stay, in the same order, and no item whose identifier
\* the list already has is added; when the appending fetch fails the list
\* is unchanged.
C35_AppendKeepsList == [][AppendStep]_vars

\* The second page, which repeats an item of the first, has been appended:
\* the list has each of the three items once.
C35_Witness ==
    /\ movies = <<ItemAl, ItemB, ItemC>>
    /\ \E i \in 1..Len(issued) :
          /\ issued[i].append
          /\ issued[i].state = "ok"
          /\ issued[i].result = <<ItemB, ItemC>>

============================================================================
